---- MODULE Spec2Model ----
(***************************************************************************)
(* Conversational memory agent: topic segmentation, asynchronous topic     *)
(* summaries and the hand-off of closed topics from Short-Term Memory to   *)
(* Long-Term Memory (src/agent.py, src/memory/*.py, src/utils/*.py).       *)
(*                                                                         *)
(* Python objects live in a heap: `objs` holds the Topic objects of the    *)
(* session (a topic's id is its index; uuid4 is modelled as a fresh        *)
(* index), `lists` holds the Python list objects that Topic.messages       *)
(* refers to.  ShortTermMemory and LongTermMemory are records of their     *)
(* fields.  Every method is an operator from a world (objs, lists, st, lt) *)
(* to the world it leaves behind; the actions are the steps of the         *)
(* threads of Agent.single_turn_chat and Agent.end_session.                *)
(***************************************************************************)
EXTENDS Integers, Sequences, FiniteSets, TLC

VARIABLES
    objs,            \* heap of Topic objects created by ShortTermMemory
    lists,           \* heap of message lists (Topic.messages is a reference)
    short_term,      \* MemoryManager.short_term : ShortTermMemory
    long_term,       \* MemoryManager.long_term  : LongTermMemory
    message_count,   \* Agent.message_count
    now,             \* datetime.utcnow(), one tick per public call
    pc,              \* position of the turn-handling thread
    turn,            \* locals of the running single_turn_chat / end_session
    facts_future,    \* the extract_facts task of the turn's executor
    summary_task,    \* the _generate_and_update_topic_summary task
    outcome          \* how the last public call ended

vars == <<objs, lists, short_term, long_term, message_count, now, pc, turn,
          facts_future, summary_task, outcome>>

-----------------------------------------------------------------------------
(* Bounds of the model *)

\* number of public calls (single_turn_chat, end_session) of one session
MaxCalls == 3

\* closed topics of the session a retrieval call is made in
MaxTopics == 4

\* largest max_k / k of a retrieval call
MaxK == 3

\* number of save_facts calls on one facts table
MaxSaves == 2

\* topics of the corpus update_notepad is called on
MaxCorpus == 11

\* changes made to a copy of a handed-off topic
MaxChanges == 1

\* messages of the open topic _close_current_topic is called on
MaxMessages == 4

\* closed topics of the session whose ranking by find_relevant_topics is
\* compared with the order of the topics argument
MaxRanked == 7

-----------------------------------------------------------------------------
(* Values *)

\* Python None for an object reference / a timestamp
NoTopic == 0
NoTime == 0
\* Python None where a str is expected (Topic.summary, LongTermMemory.notepad)
NoneStr == "<None>"

MAX_CONTEXT_CHARS == 25000

\* User inputs: a blank message and a non-blank one.
UserMessages == {"", "q"}
\* Replies of generate(): "r25000" stands for a reply of 25,000 characters.
Replies == {"ok", "r25000"}

\* len(str) of the texts used as message content
len(s) ==
    CASE s = "" -> 0
      [] s = "q" -> 1
      [] s = "ok" -> 2
      [] s = "r25000" -> 25000
      [] s = "NOTES8001" -> 8001
      [] OTHER -> 20

\* s.strip() on the texts used here
Strip(s) ==
    CASE s = " " -> ""
      [] s = " Alice " -> "Alice"
      [] OTHER -> s

\* not s.strip()
IsBlank(s) == Strip(s) = ""

\* Python truthiness of an Optional[str]
Falsy(s) == s = NoneStr \/ s = ""

Last(seq) == seq[Len(seq)]

\* seq[:-2]
DropLast2(seq) == SubSeq(seq, 1, Len(seq) - 2)

\* seq[-k:]
LastK(seq, k) == IF Len(seq) <= k THEN seq ELSE SubSeq(seq, Len(seq) - k + 1, Len(seq))

RECURSIVE SumChars(_)
\* sum(len(msg.get('content', '')) for msg in messages)
SumChars(messages) ==
    IF messages = <<>> THEN 0
    ELSE len(messages[1].content) + SumChars(Tail(messages))

-----------------------------------------------------------------------------
(* utils/embed.py, utils/models.py: the external collaborators' values *)

\* a Python list of floats, as the API response and json.load give it
PyList(values) == [type |-> "list", values |-> values]

\* np.array(emb): an ndarray of the same numbers
np_array(emb) == [type |-> "ndarray", values |-> emb.values]

\* emb.tolist(): the list of the array's numbers
tolist(emb) == [type |-> "list", values |-> emb.values]

\* np.zeros(1536): the embedding of blank text
ZeroEmbedding == np_array(PyList(<<0, 0, 0, 0, 0>>))

\* client.embeddings.create(...): a fixed vector per text (the embedding
\* function is deterministic).  The vectors have integer norm 20, so every
\* cosine is an exact number of hundredths: against "q" the texts "T", "S",
\* "L", "S50" and "Unnamed Topic" score 1.00, 0.80, 0.60, 0.50 and 0.00.
ApiEmbedding(text) ==
    PyList(CASE text = "q" -> <<20, 0, 0, 0, 0>>
             [] text = "T" -> <<20, 0, 0, 0, 0>>
             [] text = "S" -> <<16, 12, 0, 0, 0>>
             [] text = "L" -> <<12, 16, 0, 0, 0>>
             [] text = "S50" -> <<10, 10, 10, 10, 0>>
             [] text = "Unnamed Topic" -> <<0, 20, 0, 0, 0>>
             [] OTHER -> <<0, 0, 0, 0, 20>>)

\* np.zeros for blank text, np.array(response.data[0].embedding) otherwise
get_embedding(text) ==
    IF IsBlank(text) THEN ZeroEmbedding ELSE np_array(ApiEmbedding(text))

\* cosine similarities in hundredths; 0/0 of a zero vector is NaN, and every
\* comparison with NaN is False
NaN == -1000
Similarities == {45, 46}
Greater(a, b) == a # NaN /\ a > b

\* dict.get / dict[k] = v on dicts modelled as functions
EmptyDict == <<>>
Has(d, k) == k \in DOMAIN d
Put(d, k, v) == [x \in DOMAIN d \cup {k} |-> IF x = k THEN v ELSE d[x]]

RECURSIVE DotFrom(_, _, _)
DotFrom(emb1, emb2, i) ==
    IF i > Len(emb1) THEN 0 ELSE emb1[i] * emb2[i] + DotFrom(emb1, emb2, i + 1)

\* np.dot(emb1, emb2)
Dot(emb1, emb2) == DotFrom(emb1.values, emb2.values, 1)

RECURSIVE SqrtFrom(_, _)
\* the integer square root of n, by Newton's iteration from x
SqrtFrom(n, x) ==
    LET y == (x + n \div x) \div 2
    IN IF y >= x THEN x ELSE SqrtFrom(n, y)

\* np.linalg.norm(emb)
Norm(emb) ==
    LET n == Dot(emb, emb)
    IN IF n = 0 THEN 0 ELSE SqrtFrom(n, n)

\* np.dot(emb1, emb2) / (norm(emb1) * norm(emb2)), in hundredths; a zero
\* vector gives 0/0 = nan (numpy warns and does not raise)
cosine_similarity(emb1, emb2) ==
    IF Norm(emb1) * Norm(emb2) = 0 THEN NaN
    ELSE (100 * Dot(emb1, emb2)) \div (Norm(emb1) * Norm(emb2))

\* a < b on floats: every comparison with nan is False
ISLT(a, b) == a # NaN /\ b # NaN /\ a < b

Reverse(seq) == [i \in DOMAIN seq |-> seq[Len(seq) + 1 - i]]

RECURSIVE RunEnd(_, _, _)
\* listobject.c count_run: the end of the run that starts the list, which is
\* strictly descending when a[2] < a[1] and non-descending otherwise
RunEnd(a, i, descending) ==
    IF i > Len(a) THEN Len(a)
    ELSE IF ISLT(a[i].similarity, a[i - 1].similarity) = descending
    THEN RunEnd(a, i + 1, descending)
    ELSE i - 1

CountRun(a) ==
    IF Len(a) <= 1 THEN [n |-> Len(a), descending |-> FALSE]
    ELSE LET descending == ISLT(a[2].similarity, a[1].similarity)
         IN [n |-> RunEnd(a, 3, descending), descending |-> descending]

RECURSIVE BinarySearch(_, _, _, _)
\* listobject.c binarysort: the slot of the pivot among a[l .. r-1]
BinarySearch(a, pivot, l, r) ==
    IF l >= r THEN l
    ELSE LET p == l + ((r - l) \div 2)
         IN IF ISLT(pivot.similarity, a[p].similarity)
            THEN BinarySearch(a, pivot, l, p)
            ELSE BinarySearch(a, pivot, p + 1, r)

RECURSIVE BinarySort(_, _)
\* listobject.c binarysort: a[1 .. start-1] is taken as sorted, the rest is
\* inserted one by one
BinarySort(a, start) ==
    IF start > Len(a) THEN a
    ELSE LET l == BinarySearch(a, a[start], 1, start)
             moved == SubSeq(a, 1, l - 1) \o <<a[start]>> \o SubSeq(a, l, start - 1)
                        \o SubSeq(a, start + 1, Len(a))
         IN BinarySort(moved, start + 1)

\* scores.sort(reverse=True, key=lambda x: x[0]) as CPython sorts a list of
\* fewer than 64 items: reverse, find the first run, binary insertion sort,
\* reverse
SortReverse(scores) ==
    LET a == Reverse(scores)
        run == CountRun(a)
        a1 == IF run.descending
              THEN Reverse(SubSeq(a, 1, run.n)) \o SubSeq(a, run.n + 1, Len(a))
              ELSE a
    IN Reverse(BinarySort(a1, run.n + 1))

\* seq[:k]
FirstK(seq, k) ==
    IF k >= 0 THEN SubSeq(seq, 1, IF k < Len(seq) THEN k ELSE Len(seq))
    ELSE SubSeq(seq, 1, IF Len(seq) + k > 0 THEN Len(seq) + k ELSE 0)

\* the (similarity, topic) pairs of the topics that have an embedding
Scores(query_emb, topics, embeddings) ==
    LET has_embedding(topic) == Has(embeddings, topic.id)
        with_embedding == SelectSeq(topics, has_embedding)
    IN [i \in DOMAIN with_embedding |->
           [similarity |-> cosine_similarity(query_emb, embeddings[with_embedding[i].id]),
            topic |-> with_embedding[i]]]

\* faulty variant: the threshold is not strict
AboveThreshold_OrEqual(similarity, min_threshold) ==
    similarity # NaN /\ similarity >= min_threshold

\* sim > min_threshold
AboveThreshold(similarity, min_threshold) == Greater(similarity, min_threshold)

find_relevant_topics(query, topics, embeddings, max_k, min_threshold) ==
    IF topics = <<>> \/ IsBlank(query) THEN <<>>
    ELSE LET scores == SortReverse(Scores(get_embedding(query), topics, embeddings))
             above(score) == AboveThreshold(score.similarity, min_threshold)
             kept == FirstK(SelectSeq(scores, above), max_k)
         IN [i \in DOMAIN kept |-> kept[i].topic]

\* generate_with_retry(prompt, TopicSwitchDecision): the decision, or "raise"
SwitchDecisions == {"switch", "same", "raise"}

\* generate_with_retry(prompt, CloseTopicResponse): label and summary are
\* unconstrained str fields; ok = FALSE is the call raising
CloseTopicResults ==
    { [ok |-> TRUE, label |-> "L", summary |-> "S"],
      [ok |-> TRUE, label |-> "", summary |-> ""],
      [ok |-> FALSE, label |-> "", summary |-> ""] }

\* generate_with_retry(prompt, FactsResponse)
FactsResponses ==
    { <<>>, <<[field |-> "name", value |-> "Alice", importance |-> 10]>> }

-----------------------------------------------------------------------------
(* memory/topics.py *)

Topic(id, name, summary, messages, created_at, closed_at) ==
    [id |-> id, name |-> name, summary |-> summary, messages |-> messages,
     created_at |-> created_at, closed_at |-> closed_at]

Message(role, content, timestamp) ==
    [role |-> role, content |-> content, timestamp |-> timestamp]

\* the list object a ShortTermMemory topic refers to
MessagesOf(w, topic_id) == w.lists[w.objs[topic_id].messages]

\* Topic.add_message_to_topic
add_message_to_topic(w, topic_id, message) ==
    [w EXCEPT !.lists[w.objs[topic_id].messages] = Append(@, message)]

-----------------------------------------------------------------------------
(* memory/short_term.py *)

NewShortTermMemory ==
    [topics |-> <<>>, curr_open_topic |-> NoTopic, current_topic_id |-> NoTopic,
     topic_embeddings |-> EmptyDict, pending_summary_future |-> NoTopic]

\* faulty variant: only the last two messages of the open topic are returned
RecentMessages_LastTwo(w) == LastK(MessagesOf(w, w.st.curr_open_topic), 2)

\* recent_messages = self.curr_open_topic.messages (line 57); the list is read
\* when the prompt is built, before any write
RecentMessages(w) == MessagesOf(w, w.st.curr_open_topic)

\* ShortTermMemory.get_context
short_term_get_context(w, query) ==
    IF w.st.curr_open_topic = NoTopic
    THEN [recent_messages |-> <<>>, closed_topics_summaries |-> <<>>,
          relevant_topics |-> <<>>]
    ELSE LET topics == [i \in DOMAIN w.st.topics |-> w.objs[w.st.topics[i]]]
             relevant_topic_objs ==
                 IF topics # <<>> /\ ~IsBlank(query)
                 THEN find_relevant_topics(query, topics, w.st.topic_embeddings, 2, 75)
                 ELSE <<>>
         IN [recent_messages |-> RecentMessages(w),
             closed_topics_summaries |->
                 [i \in DOMAIN topics |->
                     [id |-> topics[i].id, name |-> topics[i].name,
                      summary |-> topics[i].summary]],
             relevant_topics |->
                 [i \in DOMAIN relevant_topic_objs |->
                     [id |-> relevant_topic_objs[i].id,
                      name |-> relevant_topic_objs[i].name,
                      summary |-> relevant_topic_objs[i].summary,
                      messages |-> w.lists[relevant_topic_objs[i].messages]]]]

\* faulty variant: current_topic_id is not set for the new topic
_start_new_topic_StaleId(w, t) ==
    LET topic_id == Len(w.objs) + 1
        ref == Len(w.lists) + 1
    IN [w EXCEPT !.lists = Append(@, <<>>),
                 !.objs = Append(@, Topic(topic_id, "", NoneStr, ref, t, NoTime)),
                 !.st.curr_open_topic = topic_id]

_start_new_topic(w, t) ==
    LET topic_id == Len(w.objs) + 1
        ref == Len(w.lists) + 1
    IN [w EXCEPT !.lists = Append(@, <<>>),
                 !.objs = Append(@, Topic(topic_id, "", NoneStr, ref, t, NoTime)),
                 !.st.current_topic_id = topic_id,
                 !.st.curr_open_topic = topic_id]

_check_context_window_limit(w) ==
    IF w.st.curr_open_topic = NoTopic THEN FALSE
    ELSE SumChars(MessagesOf(w, w.st.curr_open_topic)) > MAX_CONTEXT_CHARS

\* faulty variant: a failed classifier call counts as a switch
_verify_topic_switch_with_llm_FailOpen(decision) == decision \in {"switch", "raise"}

\* try: generate_with_retry(...) except Exception: return False
_verify_topic_switch_with_llm(decision) == decision = "switch"

\* cosine_similarity(get_embedding(message), get_embedding(context_text)):
\* `sim` is the value for two non-blank texts
ShiftSimilarity(message, recent_messages, sim) ==
    IF IsBlank(message) \/ \A i \in DOMAIN recent_messages : IsBlank(recent_messages[i].content)
    THEN NaN
    ELSE sim

\* faulty variant: the boundary check runs on a topic of any length
_detect_topic_shift_NoMinimum(w, message, sim, decision) ==
    IF w.st.curr_open_topic = NoTopic THEN FALSE
    ELSE LET recent_messages == LastK(MessagesOf(w, w.st.curr_open_topic), 3)
             similarity == ShiftSimilarity(message, recent_messages, sim)
         IN IF Greater(similarity, 45) THEN FALSE
            ELSE _verify_topic_switch_with_llm(decision)

\* faulty variant: a similarity of exactly 0.45 takes the cheap path
_detect_topic_shift_AtThreshold(w, message, sim, decision) ==
    IF w.st.curr_open_topic = NoTopic THEN FALSE
    ELSE IF Len(MessagesOf(w, w.st.curr_open_topic)) < 3 THEN FALSE
    ELSE LET recent_messages == LastK(MessagesOf(w, w.st.curr_open_topic), 3)
             similarity == ShiftSimilarity(message, recent_messages, sim)
         IN IF similarity # NaN /\ similarity >= 45 THEN FALSE
            ELSE _verify_topic_switch_with_llm(decision)

_detect_topic_shift(w, message, sim, decision) ==
    IF w.st.curr_open_topic = NoTopic THEN FALSE
    ELSE IF Len(MessagesOf(w, w.st.curr_open_topic)) < 3 THEN FALSE
    ELSE LET recent_messages == LastK(MessagesOf(w, w.st.curr_open_topic), 3)
             similarity == ShiftSimilarity(message, recent_messages, sim)
         IN IF Greater(similarity, 45) THEN FALSE
            ELSE _verify_topic_switch_with_llm(decision)

\* topic.name / topic.summary after the try/except of
\* _generate_and_update_topic_summary
SummaryAssign(topic, result) ==
    IF result.ok
    THEN [topic EXCEPT !.name = result.label, !.summary = result.summary]
    ELSE [topic EXCEPT !.name = IF Falsy(@) THEN "Unnamed Topic" ELSE @,
                       !.summary = IF Falsy(@) THEN "No summary available" ELSE @]

\* faulty variant: the canned summary is embedded like a generated one
SummaryText_EmbedsCannedSummary(name, summary) ==
    LET s == IF Falsy(summary) THEN "" ELSE summary
    IN IF s # "" THEN s ELSE IF Falsy(name) THEN "Unnamed Topic" ELSE name

\* the text that is embedded for a summarized topic
SummaryText(name, summary) ==
    LET s == IF Falsy(summary) THEN "" ELSE summary
    IN IF s # "" /\ s \notin {"No summary available", "Brief exchange with minimal content."}
       THEN s
       ELSE IF Falsy(name) THEN "Unnamed Topic" ELSE name

\* faulty variant: the worker also clears the open-topic slot
SummaryWriteFields_ClearsOpenSlot(w, topic_id, result) ==
    [w EXCEPT !.objs[topic_id] = SummaryAssign(@, result),
              !.st.curr_open_topic = NoTopic]

\* first half of _generate_and_update_topic_summary: the LLM call and the
\* writes of name and summary
SummaryWriteFields(w, topic_id, result) ==
    [w EXCEPT !.objs[topic_id] = SummaryAssign(@, result)]

\* faulty variant: the table is replaced by one that holds the new entry only
SummaryWriteEmbedding_ReplacesTable(w, topic_id) ==
    [w EXCEPT !.st.topic_embeddings =
        Put(EmptyDict, topic_id,
            get_embedding(SummaryText(w.objs[topic_id].name, w.objs[topic_id].summary)))]

\* second half: self.topic_embeddings[topic_id] = get_embedding(summary_text)
SummaryWriteEmbedding(w, topic_id) ==
    [w EXCEPT !.st.topic_embeddings =
        Put(@, topic_id,
            get_embedding(SummaryText(w.objs[topic_id].name, w.objs[topic_id].summary)))]

_generate_and_update_topic_summary(w, topic_id, result) ==
    SummaryWriteEmbedding(SummaryWriteFields(w, topic_id, result), topic_id)

\* faulty variant: an empty topic is closed like any other
IsEmptyTopic_Never(messages) == FALSE

\* `if not self.curr_open_topic.messages` (line 216)
IsEmptyTopic(messages) == messages = <<>>

\* faulty variant: the open-topic slot is not cleared when a topic closes
ClearOpenTopic_KeepsSlot(w) == w

\* self.curr_open_topic = None; self.current_topic_id = None
ClearOpenTopic(w) ==
    [w EXCEPT !.st.curr_open_topic = NoTopic, !.st.current_topic_id = NoTopic]

\* returns the world and the future (the id of the topic the future will
\* return, NoTopic for None)
_close_current_topic(w, executor, t, result) ==
    IF w.st.curr_open_topic = NoTopic THEN [w |-> w, future |-> NoTopic]
    ELSE
      LET topic_id == w.objs[w.st.curr_open_topic].id
          w1 == [w EXCEPT !.objs[w.st.curr_open_topic].closed_at = t]
          messages == MessagesOf(w1, topic_id)
      IN IF IsEmptyTopic(messages) THEN [w |-> ClearOpenTopic(w1), future |-> NoTopic]
         ELSE IF Len(messages) < 1 THEN
           LET w2 == [w1 EXCEPT
                        !.objs[topic_id].name = IF Falsy(@) THEN "Empty Topic" ELSE @,
                        !.objs[topic_id].summary = "Brief exchange with minimal content."]
               summary_text == IF Falsy(w2.objs[topic_id].name) THEN "Unnamed Topic"
                               ELSE w2.objs[topic_id].name
               w3 == [w2 EXCEPT
                        !.st.topic_embeddings = Put(@, topic_id, get_embedding(summary_text)),
                        !.st.topics = Append(@, topic_id)]
           IN [w |-> ClearOpenTopic(w3), future |-> NoTopic]
         ELSE
           LET w2 == [ClearOpenTopic(w1) EXCEPT !.st.topics = Append(@, topic_id)]
           IN IF executor
              THEN [w |-> [w2 EXCEPT !.st.pending_summary_future = topic_id],
                    future |-> topic_id]
              ELSE [w |-> _generate_and_update_topic_summary(w2, topic_id, result),
                    future |-> NoTopic]

\* faulty variant: the triggering pair is left in the closing topic
RemoveLastTurn_KeepsPair(w) == w

\* faulty variant: only the reply is taken off the closing topic ([:-1])
RemoveLastTurn_DropsOne(w) ==
    LET cur == w.st.curr_open_topic
        messages == MessagesOf(w, cur)
    IN IF Len(messages) >= 2
       THEN [w EXCEPT !.lists = Append(@, SubSeq(messages, 1, Len(messages) - 1)),
                      !.objs[cur].messages = Len(w.lists) + 1]
       ELSE w

\* self.curr_open_topic.messages = self.curr_open_topic.messages[:-2]
\* (the slice is a new list object)
RemoveLastTurn(w) ==
    LET cur == w.st.curr_open_topic
    IN IF Len(MessagesOf(w, cur)) >= 2
       THEN [w EXCEPT !.lists = Append(@, DropLast2(MessagesOf(w, cur))),
                      !.objs[cur].messages = Len(w.lists) + 1]
       ELSE w

\* faulty variant: the reply is recorded before the user message
AppendTurn_ReplyFirst(w, user_message, assistant_response, t) ==
    add_message_to_topic(
        add_message_to_topic(w, w.st.curr_open_topic,
                             Message("assistant", assistant_response, t)),
        w.st.curr_open_topic, Message("user", user_message, t))

\* lines 109-119 (and 131-140): the user message, then the reply
AppendTurn(w, user_message, assistant_response, t) ==
    add_message_to_topic(
        add_message_to_topic(w, w.st.curr_open_topic, Message("user", user_message, t)),
        w.st.curr_open_topic, Message("assistant", assistant_response, t))

\* _detect_topic_shift reaches its second stage (line 183) in add_single_turn
\* on world w: the topic holds at least 3 messages once the pair is appended
\* and the similarity is not above 0.45
ClassifierCalled(w, user_message, assistant_response, t, sim) ==
    LET w1 == IF w.st.curr_open_topic = NoTopic THEN _start_new_topic(w, t) ELSE w
        w2 == AppendTurn(w1, user_message, assistant_response, t)
        messages == MessagesOf(w2, w2.st.curr_open_topic)
    IN /\ Len(messages) >= 3
       /\ ~Greater(ShiftSimilarity(user_message, LastK(messages, 3), sim), 45)

\* the similarity _detect_topic_shift computes at line 176 in add_single_turn
\* on world w, <<>> when it returns at line 168 without computing one
ComputedSimilarity(w, user_message, assistant_response, t, sim) ==
    LET w1 == IF w.st.curr_open_topic = NoTopic THEN _start_new_topic(w, t) ELSE w
        w2 == AppendTurn(w1, user_message, assistant_response, t)
        messages == MessagesOf(w2, w2.st.curr_open_topic)
    IN IF Len(messages) < 3 THEN <<>>
       ELSE <<ShiftSimilarity(user_message, LastK(messages, 3), sim)>>

\* add_single_turn up to the return of _close_current_topic (lines 103-127
\* and 144-145); closing says which branch closed the topic
AddSingleTurnHead(w, user_message, assistant_response, executor, t, sim, decision, result) ==
    LET w1 == IF w.st.curr_open_topic = NoTopic THEN _start_new_topic(w, t) ELSE w
        w2 == AppendTurn(w1, user_message, assistant_response, t)
    IN IF _detect_topic_shift(w2, user_message, sim, decision)
       THEN LET c == _close_current_topic(RemoveLastTurn(w2), executor, t, result)
            IN [w |-> c.w, future |-> c.future, closing |-> "switch"]
       ELSE IF _check_context_window_limit(w2)
       THEN LET c == _close_current_topic(w2, executor, t, result)
            IN [w |-> c.w, future |-> c.future, closing |-> "size"]
       ELSE [w |-> w2, future |-> NoTopic, closing |-> "none"]

\* faulty variant: after a size-based close the pair is recorded in the new
\* topic as well
AddSingleTurnTail_SizeCopiesPair(w, closing, user_message, assistant_response, t) ==
    IF closing \in {"switch", "size"}
    THEN AppendTurn(_start_new_topic(w, t), user_message, assistant_response, t)
    ELSE w

\* the rest of add_single_turn, after _close_current_topic has returned
\* (lines 129-141 and 146-149)
AddSingleTurnTail(w, closing, user_message, assistant_response, t) ==
    CASE closing = "switch" ->
           AppendTurn(_start_new_topic(w, t), user_message, assistant_response, t)
      [] closing = "size" -> _start_new_topic(w, t)
      [] OTHER -> w

-----------------------------------------------------------------------------
(* memory/long_term.py *)

\* a fresh user: no files under longterm_memory/{username}/ (NoneStr is a
\* file that does not exist)
NewLongTermMemory ==
    [facts |-> EmptyDict, notepad |-> NoneStr, all_session_topics |-> <<>>,
     all_topic_embeddings |-> EmptyDict,
     facts_file |-> EmptyDict, notepad_file |-> NoneStr,
     all_session_topics_file |-> <<>>, all_session_topics_embeddings_file |-> EmptyDict]

_read_notepad(lt) == IF lt.notepad_file = NoneStr THEN "" ELSE lt.notepad_file

\* notepad[:2000] + "..." when the notepad is longer than 2000 characters
TruncateNotepad(notepad) ==
    IF len(notepad) > 2000 THEN "NOTES2000..." ELSE notepad

\* LongTermMemory.get_context
long_term_get_context(w, query, k) ==
    LET relevant_topic_objs ==
            IF /\ w.lt.all_session_topics # <<>>
               /\ w.lt.all_topic_embeddings # EmptyDict
               /\ ~IsBlank(query)
            THEN find_relevant_topics(query, w.lt.all_session_topics,
                                      w.lt.all_topic_embeddings, k, 50)
            ELSE <<>>
    IN [facts |-> [field \in DOMAIN w.lt.facts |-> w.lt.facts[field].value],
        notepad |-> TruncateNotepad(_read_notepad(w.lt)),
        relevant_topics |->
            [i \in DOMAIN relevant_topic_objs |->
                [id |-> relevant_topic_objs[i].id,
                 name |-> relevant_topic_objs[i].name,
                 summary |-> relevant_topic_objs[i].summary,
                 messages |-> w.lists[relevant_topic_objs[i].messages],
                 created_at |-> relevant_topic_objs[i].created_at,
                 closed_at |-> relevant_topic_objs[i].closed_at]]]

\* the text save_all_session_topics embeds when no embedding came with the topic
LazyEmbeddingText(topic) ==
    LET summary == IF Falsy(topic.summary) THEN "" ELSE topic.summary
    IN IF summary # "" /\ summary \notin {"No summary available", "Brief exchange with minimal content."}
       THEN summary
       ELSE IF Falsy(topic.name) THEN "Unnamed Topic" ELSE topic.name

RECURSIVE MergeSessionTopics(_, _, _)
\* the for loop of save_all_session_topics
MergeSessionTopics(lt, topics, embeddings) ==
    IF topics = <<>> THEN lt
    ELSE
      LET t == Head(topics)
          topic_obj == Topic(t.id, t.name, t.summary, t.messages, t.created_at, t.closed_at)
          lt1 == [lt EXCEPT !.all_session_topics = Append(@, topic_obj)]
          summary_text == LazyEmbeddingText(topic_obj)
          lt2 == IF topic_obj.id = NoTopic THEN lt1
                 ELSE IF Has(embeddings, topic_obj.id)
                 THEN [lt1 EXCEPT !.all_topic_embeddings =
                                      Put(@, topic_obj.id, embeddings[topic_obj.id])]
                 ELSE IF IsBlank(summary_text) THEN lt1
                 ELSE [lt1 EXCEPT !.all_topic_embeddings =
                                      Put(@, topic_obj.id, get_embedding(summary_text))]
      IN MergeSessionTopics(lt2, Tail(topics), embeddings)

\* faulty variant: only the last topic of the corpus is written
SerializeTopics_OnlyLast(w, lt) ==
    IF lt.all_session_topics = <<>> THEN <<>>
    ELSE <<[lt.all_session_topics[Len(lt.all_session_topics)]
               EXCEPT !.messages = w.lists[@]]>>

\* json.dump of the corpus: the messages are written by value
SerializeTopics(w, lt) ==
    [i \in DOMAIN lt.all_session_topics |->
        [lt.all_session_topics[i] EXCEPT !.messages = w.lists[@]]]

\* emb.tolist() if hasattr(emb, "tolist") else emb, for every id of the table
SerializeEmbeddings(embeddings) ==
    [topic_id \in DOMAIN embeddings |->
        IF embeddings[topic_id].type = "ndarray"
        THEN tolist(embeddings[topic_id]) ELSE embeddings[topic_id]]

save_all_session_topics(w, topics, embeddings) ==
    IF topics = <<>> THEN w
    ELSE LET lt1 == MergeSessionTopics(w.lt, topics, embeddings)
         IN [w EXCEPT !.lt =
                [lt1 EXCEPT !.all_session_topics_file = SerializeTopics(w, lt1),
                            !.all_session_topics_embeddings_file =
                                SerializeEmbeddings(lt1.all_topic_embeddings)]]

\* LongTermMemory(username) followed by load(), on the files of world w: a new
\* instance whose topics are built from the topics file (each with a message
\* list of its own) and whose embedding table is np.array of each stored list.
\* A file that does not exist leaves the field as __init__ set it; the notepad
\* is read from its file on demand.
load(w) ==
    LET lt == w.lt
        stored_topics == lt.all_session_topics_file
        stored_embeddings == lt.all_session_topics_embeddings_file
        n == Len(w.lists)
    IN [w EXCEPT
          !.lists = @ \o [i \in DOMAIN stored_topics |-> stored_topics[i].messages],
          !.lt = [lt EXCEPT
                    !.facts = lt.facts_file,
                    !.notepad = NoneStr,
                    !.all_session_topics =
                        [i \in DOMAIN stored_topics |->
                            Topic(stored_topics[i].id, stored_topics[i].name,
                                  stored_topics[i].summary, n + i,
                                  stored_topics[i].created_at,
                                  stored_topics[i].closed_at)],
                    !.all_topic_embeddings =
                        [topic_id \in DOMAIN stored_embeddings |->
                            np_array(stored_embeddings[topic_id])]]]

MaxAgeSeconds == 365 * 24 * 3600

\* max(1, min(10, importance))
ClampImportance(i) == IF i < 1 THEN 1 ELSE IF i > 10 THEN 10 ELSE i

\* updated_at values that datetime.fromisoformat cannot parse
BadTime == -1

\* faulty variant: a fact whose timestamp does not parse is dropped with
\* the stale ones
_prune_facts_FailClosed(facts, t) ==
    LET cutoff == t - MaxAgeSeconds
        keep(field) ==
            \/ facts[field].importance >= 7
            \/ /\ facts[field].updated_at \notin {NoTime, BadTime}
               /\ facts[field].updated_at >= cutoff
    IN [field \in {f \in DOMAIN facts : keep(f)} |-> facts[field]]

_prune_facts(facts, t) ==
    LET cutoff == t - MaxAgeSeconds
        keep(field) ==
            LET data == facts[field]
                updated_ts == IF data.updated_at \in {NoTime, BadTime} THEN NoTime
                              ELSE data.updated_at
            IN \/ data.importance >= 7
               \/ updated_ts = NoTime
               \/ updated_ts >= cutoff
    IN [field \in {f \in DOMAIN facts : keep(f)} |-> facts[field]]

\* faulty variant: a blank value is stored like any other
IsBlankValue_Never(value_str) == FALSE

\* `if not value_str` (line 96)
IsBlankValue(value_str) == value_str = ""

RECURSIVE UpsertFacts(_, _, _)
\* the for loop of save_facts_to_longterm
UpsertFacts(facts, incoming, t) ==
    IF incoming = <<>> THEN facts
    ELSE LET fact == Head(incoming)
             value_str == Strip(fact.value)
             stored == IF IsBlankValue(value_str) THEN facts
                       ELSE Put(facts, fact.field,
                                [value |-> value_str,
                                 importance |-> ClampImportance(fact.importance),
                                 updated_at |-> t])
         IN UpsertFacts(stored, Tail(incoming), t)

save_facts_to_longterm(w, facts, t) ==
    IF facts = <<>> THEN w
    ELSE LET pruned == _prune_facts(UpsertFacts(w.lt.facts, facts, t), t)
         IN [w EXCEPT !.lt.facts = pruned, !.lt.facts_file = pruned]

\* generate_with_retry(prompt, NotepadResponse): a notepad text, or the
\* exception of the last attempt: ValueError (the reply was not JSON or did
\* not validate), TypeError (the reply was JSON but not an object, so that
\* NotepadResponse(**data) could not unpack it), or the exception of the API
\* call
NotepadResults ==
    { [kind |-> "ok", text |-> "notes"], [kind |-> "ok", text |-> "NOTES8001"],
      [kind |-> "ValueError", text |-> ""], [kind |-> "TypeError", text |-> ""],
      [kind |-> "Exception", text |-> ""] }

CompressResults ==
    { [kind |-> "ok", text |-> "notes"], [kind |-> "Exception", text |-> ""] }

\* self.notepad_file.write_text(self.notepad or "")
save_notepad(w) ==
    [w EXCEPT !.lt.notepad_file = IF Falsy(w.lt.notepad) THEN "" ELSE w.lt.notepad]

\* except ValueError: print(...); return (lines 170-173)
CaughtParseFailure(w) == w

\* faulty variant: every topic of the corpus is considered
SessionTopics_WholeCorpus(topics) == topics

\* self.all_session_topics[-10:] if len(...) > 10 else self.all_session_topics
SessionTopics(topics) == LastK(topics, 10)

\* returns the world, whether an exception leaves update_notepad, the
\* exception of the generation call that update_notepad printed or let
\* through, and the number of generate_with_retry calls it made
update_notepad(w, update, compress) ==
    LET session_topics == SessionTopics(w.lt.all_session_topics)
        has_messages(t) == Len(w.lists[t.messages]) >= 2
        topics_with_messages == SelectSeq(session_topics, has_messages)
    IN IF topics_with_messages = <<>>
       THEN [w |-> w, raised |-> FALSE, error |-> "none", calls |-> 0]
       ELSE IF update.kind = "ValueError"
       THEN [w |-> CaughtParseFailure(w), raised |-> FALSE, error |-> "ValueError",
             calls |-> 1]
       ELSE IF update.kind \in {"TypeError", "Exception"}
       THEN [w |-> w, raised |-> TRUE, error |-> update.kind, calls |-> 1]
       ELSE LET w1 == [w EXCEPT !.lt.notepad = update.text]
            IN IF Falsy(w1.lt.notepad) \/ len(w1.lt.notepad) <= 8000
               THEN [w |-> save_notepad(w1), raised |-> FALSE, error |-> "none",
                     calls |-> 1]
               ELSE IF compress.kind = "ok"
               THEN [w |-> save_notepad([w1 EXCEPT !.lt.notepad = compress.text]),
                     raised |-> FALSE, error |-> "none", calls |-> 2]
               ELSE [w |-> w1, raised |-> TRUE, error |-> compress.kind, calls |-> 2]

-----------------------------------------------------------------------------
(* memory/manager.py *)

\* MemoryManager.save_facts
save_facts(w, facts, t) == save_facts_to_longterm(w, facts, t)

\* faulty variant: building the context consumes the open topic's messages
get_context_Consuming(w, query) ==
    [w |-> IF w.st.curr_open_topic = NoTopic THEN w
           ELSE [w EXCEPT !.lists[w.objs[w.st.curr_open_topic].messages] = <<>>],
     context |-> [long_term |-> long_term_get_context(w, query, 3),
                  short_term |-> short_term_get_context(w, query)]]

\* MemoryManager.get_context: the two reads run on two threads and write
\* nothing; returns the world it leaves and the combined context
get_context(w, query) ==
    [w |-> w,
     context |-> [long_term |-> long_term_get_context(w, query, 3),
                  short_term |-> short_term_get_context(w, query)]]

\* the task of lt_future (manager.py line 20): the world it leaves and its result
long_term_build(w, query) ==
    [w |-> w, context |-> long_term_get_context(w, query, 3)]

\* faulty variant: the short-term build empties the threads of the closed
\* topics once it has read them
short_term_build_ClearingThreads(w, query) ==
    [w |-> [w EXCEPT !.lists =
                [ref \in DOMAIN w.lists |->
                    IF \E i \in DOMAIN w.st.topics : w.objs[w.st.topics[i]].messages = ref
                    THEN <<>> ELSE w.lists[ref]]],
     context |-> short_term_get_context(w, query)]

\* the task of st_future (manager.py line 21)
short_term_build(w, query) ==
    [w |-> w, context |-> short_term_get_context(w, query)]

_persist_closed_topic(w, topic_id) ==
    IF MessagesOf(w, topic_id) = <<>> THEN w
    ELSE LET topic == w.objs[topic_id]
             topic_dict == [id |-> topic.id, name |-> topic.name, summary |-> topic.summary,
                            messages |-> topic.messages, created_at |-> topic.created_at,
                            closed_at |-> topic.closed_at]
             embeddings == IF Has(w.st.topic_embeddings, topic.id)
                           THEN Put(EmptyDict, topic.id, w.st.topic_embeddings[topic.id])
                           ELSE EmptyDict
         IN save_all_session_topics(w, <<topic_dict>>, embeddings)

\* faulty variant: a synchronously closed topic is left to the caller
PersistIfClosedSynchronously_Never(w, topics_before) == w

\* add_single_turn after short_term.add_single_turn returned None
\* (lines 38, 45-51)
PersistIfClosedSynchronously(w, topics_before) ==
    IF Len(w.st.topics) > topics_before
    THEN _persist_closed_topic(w, Last(w.st.topics))
    ELSE w

\* faulty variant: end_session closes the open topic and does not persist it
CloseAndPersistOpenTopic_NoPersist(w, t, result) ==
    _close_current_topic(w, FALSE, t, result).w

\* end_session up to the call of update_notepad (lines 60-69)
CloseAndPersistOpenTopic(w, t, result) ==
    IF w.st.curr_open_topic # NoTopic
    THEN LET topics_before == Len(w.st.topics)
             w1 == _close_current_topic(w, FALSE, t, result).w
         IN IF Len(w1.st.topics) > topics_before
            THEN _persist_closed_topic(w1, Last(w1.st.topics))
            ELSE w1
    ELSE w

-----------------------------------------------------------------------------
(* agent.py: the threads of a turn *)

World == [objs |-> objs, lists |-> lists, st |-> short_term, lt |-> long_term]

SetWorld(w) ==
    /\ objs' = w.objs
    /\ lists' = w.lists
    /\ short_term' = w.st
    /\ long_term' = w.lt

\* the local `context` before get_context has returned
NoContext == <<>>

\* the frame of a call that is not running
NoTurn ==
    [user_message |-> NoneStr, response |-> NoneStr, facts |-> <<>>,
     executor |-> FALSE, exception |-> "none", topics_before |-> 0,
     closing |-> "none", summary_future |-> NoTopic, context |-> NoContext,
     lt_future |-> <<>>, st_future |-> <<>>, decision |-> "not_called",
     close_topic |-> "not_called", similarity |-> <<>>]

NoTask == [state |-> "none", topic |-> NoTopic]
NoFactsTask == [state |-> "none", result |-> <<>>]

Outcome(op, status, value, error) ==
    [op |-> op, status |-> status, value |-> value, error |-> error]

Init ==
    /\ objs = <<>>
    /\ lists = <<>>
    /\ short_term = NewShortTermMemory
    /\ long_term = NewLongTermMemory
    /\ message_count = 0
    /\ now = 0
    /\ pc = "idle"
    /\ turn = NoTurn
    /\ facts_future = NoFactsTask
    /\ summary_task = NoTask
    /\ outcome = Outcome("none", "none", NoneStr, "none")

\* how the close_topic call of a summary generation ended
CloseTopicEnded(result) == IF result.ok THEN "ok" ELSE "raise"

\* Future.done() of the two tasks a turn submits; the frame of a finished
\* call drops facts_future, while ShortTermMemory.pending_summary_future
\* keeps the summary task
FactsDone == facts_future.state # "running"
\* faulty variant: the summary future is taken as done while its task still runs
SummaryDone_NoWait == TRUE

\* faulty variant: the summary future completes when name and summary are
\* written, before the embedding is stored
SummaryDone_BeforeEmbedding == summary_task.state # "pending"

SummaryDone == summary_task.state \notin {"pending", "assigned"}

\* faulty variant: executor.shutdown(wait=False)
ShutdownReturns_NoWait == TRUE

\* executor.shutdown(wait=True) returns once every submitted task has finished
ShutdownReturns == FactsDone /\ SummaryDone

\* single_turn_chat is entered: lines 16-24
SingleTurnChat ==
    /\ pc = "idle"
    /\ now < MaxCalls
    /\ \E user_message \in UserMessages :
         /\ turn' = [NoTurn EXCEPT !.user_message = user_message,
                                   !.executor = ~IsBlank(user_message)]
         /\ facts_future' = IF IsBlank(user_message) THEN NoFactsTask
                            ELSE [state |-> "running", result |-> <<>>]
    /\ message_count' = message_count + 1
    /\ now' = now + 1
    /\ outcome' = Outcome("single_turn_chat", "running", NoneStr, "none")
    /\ pc' = "get_context"
    /\ UNCHANGED <<objs, lists, short_term, long_term, summary_task>>

\* worker thread: extract_facts(user_message, "") returns or raises
ExtractFacts ==
    /\ facts_future.state = "running"
    /\ \/ \E facts \in FactsResponses : facts_future' = [state |-> "done", result |-> facts]
       \/ facts_future' = [state |-> "failed", result |-> <<>>]
    /\ UNCHANGED <<objs, lists, short_term, long_term, message_count, now, pc, turn,
                   summary_task, outcome>>

\* worker thread of MemoryManager.get_context: self.long_term.get_context(query)
\* (a future is <<>> until its task has finished, then it holds the result)
LongTermBuild ==
    /\ pc = "get_context"
    /\ turn.lt_future = <<>>
    /\ LET r == long_term_build(World, turn.user_message)
       IN /\ SetWorld(r.w)
          /\ turn' = [turn EXCEPT !.lt_future = <<r.context>>]
    /\ UNCHANGED <<message_count, now, pc, facts_future, summary_task, outcome>>

\* worker thread of MemoryManager.get_context: self.short_term.get_context(query)
ShortTermBuild ==
    /\ pc = "get_context"
    /\ turn.st_future = <<>>
    /\ LET r == short_term_build(World, turn.user_message)
       IN /\ SetWorld(r.w)
          /\ turn' = [turn EXCEPT !.st_future = <<r.context>>]
    /\ UNCHANGED <<message_count, now, pc, facts_future, summary_task, outcome>>

\* context = self.get_context(user_message) (lines 27 and 48) returns:
\* lt_future.result(), st_future.result() and the pair of them (manager.py
\* lines 22-25)
GetContext ==
    /\ pc = "get_context"
    /\ turn.lt_future # <<>>
    /\ turn.st_future # <<>>
    /\ turn' = [turn EXCEPT !.context = [long_term |-> turn.lt_future[1],
                                         short_term |-> turn.st_future[1]],
                            !.lt_future = <<>>, !.st_future = <<>>]
    /\ pc' = "generate"
    /\ UNCHANGED <<objs, lists, short_term, long_term, message_count, now,
                   facts_future, summary_task, outcome>>

\* response = self.generate_response(context, user_message) (lines 28 and
\* 49): generate() returns a reply; `context` is not read again
GenerateResponse ==
    /\ pc = "generate"
    /\ \E response \in Replies :
         turn' = [turn EXCEPT !.response = response, !.context = NoContext]
    /\ pc' = IF turn.executor THEN "facts_result" ELSE "add_single_turn"
    /\ UNCHANGED <<objs, lists, short_term, long_term, message_count, now,
                   facts_future, summary_task, outcome>>

\* generate() raises: inside the try block the finally clause runs next, on
\* the blank-message path the exception leaves single_turn_chat at once
GenerateRaises ==
    /\ pc = "generate"
    /\ IF turn.executor
       THEN /\ turn' = [turn EXCEPT !.exception = "generate", !.context = NoContext]
            /\ pc' = "finally"
            /\ outcome' = outcome
       ELSE /\ turn' = NoTurn
            /\ pc' = "idle"
            /\ outcome' = Outcome("single_turn_chat", "raised", NoneStr, "generate")
    /\ UNCHANGED <<objs, lists, short_term, long_term, message_count, now,
                   facts_future, summary_task>>

\* facts = facts_future.result() (line 31)
FactsResult ==
    /\ pc = "facts_result"
    /\ FactsDone
    /\ IF facts_future.state = "failed"
       THEN /\ turn' = [turn EXCEPT !.exception = "extract_facts"]
            /\ pc' = "finally"
       ELSE /\ turn' = [turn EXCEPT !.facts = facts_future.result]
            /\ pc' = "add_single_turn"
    /\ UNCHANGED <<objs, lists, short_term, long_term, message_count, now,
                   facts_future, summary_task, outcome>>

\* self.memory.add_single_turn(user_message, response, executor) (lines 34 and
\* 53) up to the return of _close_current_topic.  When the summary was
\* submitted to the executor the rest of the call is AddSingleTurnReturns;
\* otherwise the call completes here.
AddSingleTurn ==
    /\ pc = "add_single_turn"
    /\ \E sim \in Similarities, decision \in SwitchDecisions, result \in CloseTopicResults :
         LET topics_before == Len(short_term.topics)
             head == AddSingleTurnHead(World, turn.user_message, turn.response,
                                       turn.executor, now, sim, decision, result)
             answered == IF ClassifierCalled(World, turn.user_message, turn.response,
                                             now, sim)
                         THEN decision ELSE "not_called"
             similarity == ComputedSimilarity(World, turn.user_message, turn.response,
                                              now, sim)
         IN IF head.future # NoTopic
            THEN /\ SetWorld(head.w)
                 /\ summary_task' = [state |-> "pending", topic |-> head.future]
                 /\ turn' = [turn EXCEPT !.topics_before = topics_before,
                                         !.closing = head.closing,
                                         !.decision = answered,
                                         !.similarity = similarity]
                 /\ pc' = "add_single_turn_tail"
            ELSE /\ SetWorld(PersistIfClosedSynchronously(
                        AddSingleTurnTail(head.w, head.closing, turn.user_message,
                                          turn.response, now),
                        topics_before))
                 /\ summary_task' = summary_task
                 /\ turn' = [turn EXCEPT !.topics_before = topics_before,
                                         !.closing = head.closing,
                                         !.decision = answered,
                                         !.similarity = similarity,
                                         !.close_topic =
                                             IF Len(head.w.st.topics) > topics_before
                                             THEN CloseTopicEnded(result)
                                             ELSE "not_called"]
                 /\ pc' = IF turn.executor THEN "save_facts" ELSE "return"
    /\ UNCHANGED <<message_count, now, facts_future, outcome>>

\* the turn-handling thread after executor.submit: the rest of
\* ShortTermMemory.add_single_turn, then MemoryManager.add_single_turn returns
\* the future (manager.py lines 40-43)
AddSingleTurnReturns ==
    /\ pc = "add_single_turn_tail"
    /\ SetWorld(AddSingleTurnTail(World, turn.closing, turn.user_message,
                                  turn.response, now))
    /\ turn' = [turn EXCEPT !.summary_future = summary_task.topic]
    /\ pc' = "summary_result"
    /\ UNCHANGED <<message_count, now, facts_future, summary_task, outcome>>

\* worker thread: close_topic(messages_text) and the writes of name and summary
SummarizeTopic ==
    /\ summary_task.state = "pending"
    /\ \E result \in CloseTopicResults :
         /\ SetWorld(SummaryWriteFields(World, summary_task.topic, result))
         /\ turn' = [turn EXCEPT !.close_topic = CloseTopicEnded(result)]
    /\ summary_task' = [summary_task EXCEPT !.state = "assigned"]
    /\ UNCHANGED <<message_count, now, pc, facts_future, outcome>>

\* worker thread: the embedding is stored and the future completes
EmbedSummary ==
    /\ summary_task.state = "assigned"
    /\ SetWorld(SummaryWriteEmbedding(World, summary_task.topic))
    /\ summary_task' = [summary_task EXCEPT !.state = "done"]
    /\ UNCHANGED <<message_count, now, pc, turn, facts_future, outcome>>

\* closed_topic = summary_future.result();
\* self.memory._persist_closed_topic(closed_topic) (lines 37-39)
SummaryResult ==
    /\ pc = "summary_result"
    /\ SummaryDone
    /\ summary_task.state # "failed"
    /\ SetWorld(_persist_closed_topic(World, turn.summary_future))
    /\ pc' = "save_facts"
    /\ UNCHANGED <<message_count, now, turn, facts_future, summary_task, outcome>>

\* lines 42-45 and 55: save the facts, shut the executor down, return
SaveFactsAndReturn ==
    /\ pc = "save_facts"
    /\ ShutdownReturns
    /\ SetWorld(save_facts_to_longterm(World, turn.facts, now))
    /\ outcome' = Outcome("single_turn_chat", "returned", turn.response, "none")
    /\ turn' = NoTurn
    /\ facts_future' = NoFactsTask
    /\ pc' = "idle"
    /\ UNCHANGED <<message_count, now, summary_task>>

\* line 55 on the blank-message path
ReturnResponse ==
    /\ pc = "return"
    /\ outcome' = Outcome("single_turn_chat", "returned", turn.response, "none")
    /\ turn' = NoTurn
    /\ pc' = "idle"
    /\ UNCHANGED <<objs, lists, short_term, long_term, message_count, now,
                   facts_future, summary_task>>

\* an exception passes through the finally clause (line 45) and leaves
\* single_turn_chat
RaiseAfterShutdown ==
    /\ pc = "finally"
    /\ ShutdownReturns
    /\ outcome' = Outcome("single_turn_chat", "raised", NoneStr, turn.exception)
    /\ turn' = NoTurn
    /\ facts_future' = NoFactsTask
    /\ pc' = "idle"
    /\ UNCHANGED <<objs, lists, short_term, long_term, message_count, now,
                   summary_task>>

\* Agent.end_session -> MemoryManager.end_session, lines 60-69
EndSession ==
    /\ pc = "idle"
    /\ now < MaxCalls
    /\ now' = now + 1
    /\ \E result \in CloseTopicResults :
         /\ SetWorld(CloseAndPersistOpenTopic(World, now', result))
         /\ turn' = [NoTurn EXCEPT
                        !.topics_before = Len(short_term.topics),
                        !.close_topic =
                            IF Len(short_term'.topics) > Len(short_term.topics)
                            THEN CloseTopicEnded(result) ELSE "not_called"]
    /\ outcome' = Outcome("end_session", "running", NoneStr, "none")
    /\ pc' = "update_notepad"
    /\ UNCHANGED <<message_count, facts_future, summary_task>>

\* self.long_term.update_notepad() (manager.py line 72)
UpdateNotepad ==
    /\ pc = "update_notepad"
    /\ \E update \in NotepadResults, compress \in CompressResults :
         LET r == update_notepad(World, update, compress)
         IN /\ SetWorld(r.w)
            /\ outcome' = Outcome("end_session",
                                  IF r.raised THEN "raised" ELSE "returned",
                                  NoneStr, r.error)
    /\ turn' = NoTurn
    /\ pc' = "idle"
    /\ UNCHANGED <<message_count, now, facts_future, summary_task>>

Next ==
    \/ SingleTurnChat
    \/ ExtractFacts
    \/ LongTermBuild
    \/ ShortTermBuild
    \/ GetContext
    \/ GenerateResponse
    \/ GenerateRaises
    \/ FactsResult
    \/ AddSingleTurn
    \/ AddSingleTurnReturns
    \/ SummarizeTopic
    \/ EmbedSummary
    \/ SummaryResult
    \/ SaveFactsAndReturn
    \/ ReturnResponse
    \/ RaiseAfterShutdown
    \/ EndSession
    \/ UpdateNotepad

Spec == Init /\ [][Next]_vars

\* worker thread: the embeddings request of get_embedding (embed.py lines
\* 16-19) raises; the exception ends _generate_and_update_topic_summary at
\* line 283 and is kept by the future
EmbedSummaryRaises ==
    /\ summary_task.state = "assigned"
    /\ summary_task' = [summary_task EXCEPT !.state = "failed"]
    /\ UNCHANGED <<objs, lists, short_term, long_term, message_count, now, pc, turn,
                   facts_future, outcome>>

\* summary_future.result() (agent.py line 38) re-raises the exception of the
\* worker; the finally clause runs next
SummaryResultRaises ==
    /\ pc = "summary_result"
    /\ summary_task.state = "failed"
    /\ turn' = [turn EXCEPT !.exception = "get_embedding"]
    /\ pc' = "finally"
    /\ UNCHANGED <<objs, lists, short_term, long_term, message_count, now,
                   facts_future, summary_task, outcome>>

\* the agent with an embeddings request that can fail in the summary worker
EmbedFailureNext ==
    \/ Next
    \/ EmbedSummaryRaises
    \/ SummaryResultRaises

EmbedFailureSpec == Init /\ [][EmbedFailureNext]_vars

-----------------------------------------------------------------------------
(* Retrieval calls on a session with closed topics: find_relevant_topics and *)
(* the three get_context methods, called directly on the memory objects     *)

\* summaries close_topic returned for the closed topics: " " is a summary of
\* white space, which get_embedding maps to the zero vector
RetrievalSummaries == {"T", "S50", " "}

\* min_threshold arguments of find_relevant_topics, in hundredths
Thresholds == {25, 50}

EmptyWorld ==
    [objs |-> <<>>, lists |-> <<>>, st |-> NewShortTermMemory, lt |-> NewLongTermMemory]

\* single_turn_chat("q") answered "ok" at time t on a world where the turn
\* closes no topic
RecordTurn(w, t) ==
    AddSingleTurnHead(w, "q", "ok", TRUE, t, 46, "same",
                      [ok |-> TRUE, label |-> "L", summary |-> "S"]).w

RECURSIVE ClosedSessions(_, _)
\* the world after n rounds of one turn and one end_session, the n-th
\* end_session getting summaries[n] from close_topic
ClosedSessions(summaries, n) ==
    IF n = 0 THEN EmptyWorld
    ELSE CloseAndPersistOpenTopic(
             RecordTurn(ClosedSessions(summaries, n - 1), 2 * n - 1), 2 * n,
             [ok |-> TRUE, label |-> "L", summary |-> summaries[n]])

\* the frame of a retrieval call: its arguments, and whether the call before
\* it was the same call with the same arguments
Call(op, query, k, min_threshold) ==
    [op |-> op, query |-> query, k |-> k, min_threshold |-> min_threshold]

NoCall == Call("none", NoneStr, 0, 0)

\* a session with up to max_topics closed topics and one more turn, which
\* leaves a topic open
ClosedTopicsSession(max_topics) ==
    \E n \in 0..max_topics :
        \E summaries \in [1..n -> RetrievalSummaries] :
            LET w == RecordTurn(ClosedSessions(summaries, n), 2 * n + 1)
            IN /\ objs = w.objs
               /\ lists = w.lists
               /\ short_term = w.st
               /\ long_term = w.lt
               /\ message_count = n + 1
               /\ now = 2 * n + 1
               /\ pc = "idle"
               /\ turn = [call |-> NoCall, repeated |-> FALSE]
               /\ facts_future = NoFactsTask
               /\ summary_task = NoTask
               /\ outcome = Outcome("single_turn_chat", "returned", "ok", "none")

RetrievalInit == ClosedTopicsSession(MaxTopics)

\* a call returns `value`
Returns(call, value) ==
    /\ pc = "idle"
    /\ turn' = [call |-> call, repeated |-> turn.call = call]
    /\ outcome' = Outcome(call.op, "returned", value, "none")
    /\ UNCHANGED <<message_count, now, pc, facts_future, summary_task>>

\* find_relevant_topics(query, topics, embeddings, max_k, min_threshold) on
\* the closed topics of the session
FindRelevantTopics ==
    \E query \in UserMessages, max_k \in 0..MaxK, min_threshold \in Thresholds :
        /\ Returns(Call("find_relevant_topics", query, max_k, min_threshold),
                   find_relevant_topics(
                       query,
                       [i \in DOMAIN short_term.topics |-> objs[short_term.topics[i]]],
                       short_term.topic_embeddings, max_k, min_threshold))
        /\ UNCHANGED <<objs, lists, short_term, long_term>>

ShortTermGetContext ==
    \E query \in UserMessages :
        /\ Returns(Call("ShortTermMemory.get_context", query, 2, 75),
                   short_term_get_context(World, query))
        /\ UNCHANGED <<objs, lists, short_term, long_term>>

LongTermGetContext ==
    \E query \in UserMessages, k \in 0..MaxK :
        /\ Returns(Call("LongTermMemory.get_context", query, k, 50),
                   long_term_get_context(World, query, k))
        /\ UNCHANGED <<objs, lists, short_term, long_term>>

ManagerGetContext ==
    \E query \in UserMessages :
        LET r == get_context(World, query)
        IN /\ Returns(Call("MemoryManager.get_context", query, 3, 50), r.context)
           /\ SetWorld(r.w)

RetrievalNext ==
    \/ FindRelevantTopics
    \/ ShortTermGetContext
    \/ LongTermGetContext
    \/ ManagerGetContext

RetrievalSpec == RetrievalInit /\ [][RetrievalNext]_vars

\* one find_relevant_topics call on the closed topics of a session with up
\* to MaxRanked of them
RankingInit == ClosedTopicsSession(MaxRanked)

RankTopics ==
    /\ turn.call = NoCall
    /\ FindRelevantTopics

RankingNext == RankTopics

RankingSpec == RankingInit /\ [][RankingNext]_vars

-----------------------------------------------------------------------------
(* save_facts calls on a facts table loaded from facts.json *)

Fields == {"name", "city"}

\* utcnow() when the table is loaded, in seconds; the cutoff of the first
\* prune is second 11
StartTime == MaxAgeSeconds + 10

\* entries of facts.json written by earlier sessions: updated_at is missing,
\* unparseable, 365 days and 1 second before the first save, or exactly 365
\* days before it
StoredFacts ==
    [value : {"Bob"}, importance : {6, 7}, updated_at : {NoTime, BadTime, 10, 11}]

\* the Fact objects of a FactsResponse (importance is validated into 1..10)
Facts ==
    [field : Fields, value : {" Alice "}, importance : {6, 7}]
        \cup [field : Fields, value : {" "}, importance : {6}]

\* facts.facts of the FactsResponse handed to save_facts
IncomingFacts ==
    {<<>>} \cup {<<f>> : f \in Facts} \cup {<<f, g>> : f, g \in Facts}

\* LongTermMemory.load (lines 241-244): self.facts is the content of facts.json
FactsInit ==
    \E stored \in SUBSET Fields :
        \E table \in [stored -> StoredFacts] :
            /\ long_term = [NewLongTermMemory EXCEPT !.facts = table, !.facts_file = table]
            /\ objs = <<>>
            /\ lists = <<>>
            /\ short_term = NewShortTermMemory
            /\ message_count = 0
            /\ now = StartTime
            /\ pc = "idle"
            /\ turn = [facts |-> <<>>, facts_before |-> table]
            /\ facts_future = NoFactsTask
            /\ summary_task = NoTask
            /\ outcome = Outcome("none", "none", NoneStr, "none")

\* self.memory.save_facts(facts) of one turn (agent.py line 43); the frame
\* keeps the argument and the table the call found
SaveFacts ==
    /\ pc = "idle"
    /\ message_count < MaxSaves
    /\ message_count' = message_count + 1
    /\ now' = now + 1
    /\ \E facts \in IncomingFacts :
         /\ SetWorld(save_facts(World, facts, now'))
         /\ turn' = [facts |-> facts, facts_before |-> long_term.facts]
    /\ outcome' = Outcome("save_facts", "returned", NoneStr, "none")
    /\ UNCHANGED <<pc, facts_future, summary_task>>

FactsNext == SaveFacts

FactsSpec == FactsInit /\ [][FactsNext]_vars

-----------------------------------------------------------------------------
(* utils/openai_base.py: generate_with_retry, one call of it per behaviour *)

\* the default of the max_retries parameter; no caller passes another value
max_retries == 3

OutputClasses ==
    {"TopicSwitchDecision", "CloseTopicResponse", "NotepadResponse", "FactsResponse"}

\* JSON documents a response text can contain: five objects, the array [1]
\* (its items under the key "items"), or no JSON at all
JsonObjects ==
    { [switch |-> TRUE],
      [label |-> "L", summary |-> "S"],
      [updated_notepad |-> "notes"],
      [facts |-> <<[field |-> "name", value |-> "Alice", importance |-> 10]>>],
      [facts |-> <<[field |-> "name", value |-> "Alice", importance |-> 11]>>] }

JsonDocs ==
    [kind : {"object"}, data : JsonObjects]
        \cup { [kind |-> "array", data |-> [items |-> <<1>>]],
               [kind |-> "none", data |-> [items |-> <<>>]] }

\* the text of a response: a JSON document or none, bare, inside a
\* ```json fence, or with prose before and after it
ResponseTexts ==
    { t \in [fenced : BOOLEAN, prose : BOOLEAN, json : JsonDocs] :
          ~(t.fenced /\ t.prose) }

\* client.responses.create(...) returns a response or raises
ModelReplies ==
    [raises : {FALSE}, text : ResponseTexts]
        \cup { [raises |-> TRUE, text |-> [fenced |-> FALSE, prose |-> FALSE,
                                           json |-> [kind |-> "none",
                                                     data |-> [items |-> <<>>]]]] }

\* lines 62-68: a text that starts with ``` loses its fences
StripFences(text) == [text EXCEPT !.fenced = FALSE]

\* lines 71-73: re.search(r'\{.*\}') keeps the object alone when there is one
ExtractObject(text) ==
    IF text.json.kind = "object" THEN [text EXCEPT !.prose = FALSE] ELSE text

\* what one attempt gives: the validated object (a one-element tuple) or the
\* exception raised
Failure(error) == [ok |-> FALSE, error |-> error, value |-> <<>>]
Success(value) == [ok |-> TRUE, error |-> "none", value |-> <<value>>]

\* json.loads(json_text)
json_loads(text) ==
    IF text.fenced \/ text.prose \/ text.json.kind = "none"
    THEN Failure("JSONDecodeError")
    ELSE Success(text.json)

\* output_class(**data): a list cannot be unpacked as keywords; unknown keys
\* are ignored, missing required fields and an importance outside 1..10 fail
Validate(output_class, doc) ==
    LET data == doc.data
    IN IF doc.kind # "object" THEN Failure("TypeError")
       ELSE CASE output_class = "TopicSwitchDecision" ->
                   IF Has(data, "switch")
                   THEN Success([switch |-> data.switch,
                                 topic |-> IF Has(data, "topic") THEN data.topic ELSE ""])
                   ELSE Failure("ValidationError")
              [] output_class = "CloseTopicResponse" ->
                   IF Has(data, "label") /\ Has(data, "summary")
                   THEN Success([label |-> data.label, summary |-> data.summary])
                   ELSE Failure("ValidationError")
              [] output_class = "NotepadResponse" ->
                   IF Has(data, "updated_notepad")
                   THEN Success([updated_notepad |-> data.updated_notepad])
                   ELSE Failure("ValidationError")
              [] OTHER ->
                   IF ~Has(data, "facts") THEN Success([facts |-> <<>>])
                   ELSE IF \A i \in DOMAIN data.facts :
                               data.facts[i].importance \in 1..10
                   THEN Success([facts |-> data.facts])
                   ELSE Failure("ValidationError")

\* the body of the try block (lines 53-78) for one reply of the model
Attempt(output_class, reply) ==
    IF reply.raises THEN Failure("APIError")
    ELSE LET loaded == json_loads(ExtractObject(StripFences(reply.text)))
         IN IF loaded.ok THEN Validate(output_class, loaded.value[1]) ELSE loaded

\* the errors of `except (json.JSONDecodeError, ValueError, ValidationError)`
IsParseError(error) == error \in {"JSONDecodeError", "ValidationError"}

\* faulty variant: the last attempt is followed by another one
ShouldRetry_Always(attempt) == TRUE

\* `if attempt < max_retries - 1` (lines 81 and 88)
ShouldRetry(attempt) == attempt < max_retries - 1

\* generate_with_retry(prompt, output_class) is entered; `replies` records
\* what the model answered to the calls made so far
RetryInit ==
    /\ \E output_class \in OutputClasses :
          turn = [output_class |-> output_class, attempt |-> 0, replies |-> <<>>]
    /\ pc = "model_call"
    /\ now = 0
    /\ outcome = Outcome("generate_with_retry", "running", <<>>, "none")
    /\ objs = <<>>
    /\ lists = <<>>
    /\ short_term = NewShortTermMemory
    /\ long_term = NewLongTermMemory
    /\ message_count = 0
    /\ facts_future = NoFactsTask
    /\ summary_task = NoTask

\* one pass of the loop body that ends in `return validated`
ModelCallValidates ==
    /\ pc = "model_call"
    /\ \E reply \in ModelReplies :
         LET r == Attempt(turn.output_class, reply)
         IN /\ r.ok
            /\ turn' = [turn EXCEPT !.replies = Append(@, reply)]
            /\ outcome' = Outcome("generate_with_retry", "returned", r.value, "none")
    /\ pc' = "idle"
    /\ UNCHANGED <<objs, lists, short_term, long_term, message_count, now,
                   facts_future, summary_task>>

\* one pass of the loop body that ends in an except clause: sleep and
\* continue, or raise (ValueError for a parse error, the exception itself
\* otherwise)
ModelCallFails ==
    /\ pc = "model_call"
    /\ \E reply \in ModelReplies :
         LET r == Attempt(turn.output_class, reply)
         IN /\ ~r.ok
            /\ turn' = [turn EXCEPT !.replies = Append(@, reply)]
            /\ IF ShouldRetry(turn.attempt)
               THEN /\ pc' = "sleep"
                    /\ outcome' = outcome
               ELSE /\ pc' = "idle"
                    /\ outcome' = Outcome("generate_with_retry", "raised", <<>>,
                                          IF IsParseError(r.error) THEN "ValueError"
                                          ELSE r.error)
    /\ UNCHANGED <<objs, lists, short_term, long_term, message_count, now,
                   facts_future, summary_task>>

\* time.sleep(0.5 * (attempt + 1)) in half seconds, then the next item of
\* range(max_retries); the function returns None when the range is exhausted
Backoff ==
    /\ pc = "sleep"
    /\ now' = now + turn.attempt + 1
    /\ turn' = [turn EXCEPT !.attempt = @ + 1]
    /\ IF turn.attempt + 1 < max_retries
       THEN /\ pc' = "model_call"
            /\ outcome' = outcome
       ELSE /\ pc' = "idle"
            /\ outcome' = Outcome("generate_with_retry", "returned", <<>>, "none")
    /\ UNCHANGED <<objs, lists, short_term, long_term, message_count,
                   facts_future, summary_task>>

RetryNext ==
    \/ ModelCallValidates
    \/ ModelCallFails
    \/ Backoff

\* every model call returns or raises and every sleep ends: the thread that
\* runs generate_with_retry keeps taking steps
RetrySpec == RetryInit /\ [][RetryNext]_vars /\ WF_vars(RetryNext)

-----------------------------------------------------------------------------
(* update_notepad on a corpus loaded from all_session_topics.json *)

\* number of messages of a stored topic
MessageCounts == {1, 2}

\* content of notepad.md before the call (NoneStr: no file)
StoredNotepads == {NoneStr, "old"}

\* the thread of a stored topic with n messages
StoredThread(n) ==
    [i \in 1..n |-> Message(IF i = 1 THEN "user" ELSE "assistant",
                            IF i = 1 THEN "q" ELSE "ok", 1)]

\* the files of a user whose corpus has one topic per element of counts
StoredCorpus(counts, notepad) ==
    [EmptyWorld EXCEPT
        !.lt.notepad_file = notepad,
        !.lt.all_session_topics_file =
            [i \in DOMAIN counts |->
                [id |-> i, name |-> "L", summary |-> "S",
                 messages |-> StoredThread(counts[i]),
                 created_at |-> 1, closed_at |-> 1]]]

\* LongTermMemory(username): __init__ and load() on the stored files
NotepadInit ==
    \E n \in 0..MaxCorpus :
        \E counts \in [1..n -> MessageCounts], notepad \in StoredNotepads :
            LET w == load(StoredCorpus(counts, notepad))
            IN /\ objs = w.objs
               /\ lists = w.lists
               /\ short_term = w.st
               /\ long_term = w.lt
               /\ message_count = 0
               /\ now = 2
               /\ pc = "idle"
               /\ turn = [calls |-> 0]
               /\ facts_future = NoFactsTask
               /\ summary_task = NoTask
               /\ outcome = Outcome("none", "none", NoneStr, "none")

\* LongTermMemory.update_notepad(), once per behaviour; the frame keeps the
\* number of generation calls it made
CallUpdateNotepad ==
    /\ pc = "idle"
    /\ message_count = 0
    /\ message_count' = 1
    /\ \E update \in NotepadResults, compress \in CompressResults :
         LET r == update_notepad(World, update, compress)
         IN /\ SetWorld(r.w)
            /\ turn' = [calls |-> r.calls]
            /\ outcome' = Outcome("update_notepad",
                                  IF r.raised THEN "raised" ELSE "returned",
                                  NoneStr, r.error)
    /\ UNCHANGED <<now, pc, facts_future, summary_task>>

NotepadNext == CallUpdateNotepad

NotepadSpec == NotepadInit /\ [][NotepadNext]_vars

-----------------------------------------------------------------------------
(* ShortTermMemory._close_current_topic called on an open topic of any length *)

RECURSIVE AddMessages(_, _, _)
\* add_message_to_topic for each of the contents, the roles alternating
AddMessages(w, contents, i) ==
    IF i > Len(contents) THEN w
    ELSE AddMessages(
             add_message_to_topic(
                 w, w.st.curr_open_topic,
                 Message(IF i % 2 = 1 THEN "user" ELSE "assistant", contents[i], 1)),
             contents, i + 1)

\* a ShortTermMemory whose open topic, made by _start_new_topic, has received
\* up to MaxMessages messages
CloseInit ==
    \E n \in 0..MaxMessages :
        \E contents \in [1..n -> UserMessages] :
            LET w == AddMessages(_start_new_topic(EmptyWorld, 1), contents, 1)
            IN /\ objs = w.objs
               /\ lists = w.lists
               /\ short_term = w.st
               /\ long_term = w.lt
               /\ message_count = 0
               /\ now = 2
               /\ pc = "idle"
               /\ turn = NoTurn
               /\ facts_future = NoFactsTask
               /\ summary_task = NoTask
               /\ outcome = Outcome("none", "none", NoneStr, "none")

\* self._close_current_topic(executor) returns; with an executor the summary
\* generation is left to the worker (SummarizeTopic, EmbedSummary)
CloseCurrentTopic ==
    /\ pc = "idle"
    /\ short_term.curr_open_topic # NoTopic
    /\ \E executor \in BOOLEAN, result \in CloseTopicResults :
         LET c == _close_current_topic(World, executor, now, result)
         IN /\ SetWorld(c.w)
            /\ summary_task' = IF c.future = NoTopic THEN NoTask
                               ELSE [state |-> "pending", topic |-> c.future]
            /\ turn' = [NoTurn EXCEPT !.executor = executor,
                                      !.summary_future = c.future]
    /\ outcome' = Outcome("_close_current_topic", "returned", NoneStr, "none")
    /\ UNCHANGED <<message_count, now, pc, facts_future>>

CloseNext ==
    \/ CloseCurrentTopic
    \/ SummarizeTopic
    \/ EmbedSummary

CloseSpec == CloseInit /\ [][CloseNext]_vars

-----------------------------------------------------------------------------
(* Changes to one copy of a topic that was handed to Long-Term Memory *)

\* the frame of a change: the copy it was made through and the topic's id
Change(copy, topic_id) == [copy |-> copy, topic |-> topic_id]

\* a session of 1 to MaxTopics closed topics, each handed to Long-Term Memory
\* by end_session
HandOffInit ==
    \E n \in 1..MaxTopics :
        \E summaries \in [1..n -> RetrievalSummaries] :
            LET w == ClosedSessions(summaries, n)
            IN /\ objs = w.objs
               /\ lists = w.lists
               /\ short_term = w.st
               /\ long_term = w.lt
               /\ message_count = 0
               /\ now = 2 * n + 1
               /\ pc = "idle"
               /\ turn = Change("none", NoTopic)
               /\ facts_future = NoFactsTask
               /\ summary_task = NoTask
               /\ outcome = Outcome("none", "none", NoneStr, "none")

\* a change is made through a copy of a topic
Changes(op, copy, topic_id) ==
    /\ pc = "idle"
    /\ message_count < MaxChanges
    /\ message_count' = message_count + 1
    /\ turn' = Change(copy, topic_id)
    /\ outcome' = Outcome(op, "returned", NoneStr, "none")
    /\ UNCHANGED <<now, pc, facts_future, summary_task>>

\* topic.add_message_to_topic(message) on the Topic object in
\* ShortTermMemory.topics
AddMessageToShortTermCopy ==
    \E i \in DOMAIN short_term.topics, content \in UserMessages :
        /\ Changes("add_message_to_topic", "short_term", short_term.topics[i])
        /\ SetWorld(add_message_to_topic(World, short_term.topics[i],
                                         Message("user", content, now)))

\* topic.add_message_to_topic(message) on the Topic object in
\* LongTermMemory.all_session_topics: self.messages.append(message)
AddMessageToLongTermCopy ==
    \E j \in DOMAIN long_term.all_session_topics, content \in UserMessages :
        /\ Changes("add_message_to_topic", "long_term", long_term.all_session_topics[j].id)
        /\ lists' = [lists EXCEPT ![long_term.all_session_topics[j].messages] =
                         Append(@, Message("user", content, now))]
        /\ UNCHANGED <<objs, short_term, long_term>>

\* topic.name = ...; topic.summary = ... on the Topic object in
\* ShortTermMemory.topics, as _generate_and_update_topic_summary assigns them
RenameShortTermCopy ==
    \E i \in DOMAIN short_term.topics, result \in CloseTopicResults :
        /\ Changes("assign_name_and_summary", "short_term", short_term.topics[i])
        /\ SetWorld(SummaryWriteFields(World, short_term.topics[i], result))

HandOffNext ==
    \/ AddMessageToShortTermCopy
    \/ AddMessageToLongTermCopy
    \/ RenameShortTermCopy

HandOffSpec == HandOffInit /\ [][HandOffNext]_vars

-----------------------------------------------------------------------------
(* Vocabulary of the properties *)

TopicIds == DOMAIN objs
ClosedTopicIds == {short_term.topics[i] : i \in DOMAIN short_term.topics}
LongTermIds == {long_term.all_session_topics[i].id : i \in DOMAIN long_term.all_session_topics}

\* the messages of a ShortTermMemory topic in the current state
Messages(id) == lists[objs[id].messages]

\* _generate_and_update_topic_summary has run to its end for the topic
Summarized(id) ==
    /\ objs[id].summary # NoneStr
    /\ Has(short_term.topic_embeddings, id)

\* character total of the open topic (0 when no topic is open)
OpenTopicChars ==
    IF short_term.curr_open_topic = NoTopic THEN 0
    ELSE SumChars(Messages(short_term.curr_open_topic))

\* this step is the return of MemoryManager.add_single_turn to the agent
AddSingleTurnCallReturns ==
    \/ pc = "add_single_turn" /\ pc' \in {"save_facts", "return"}
    \/ pc = "add_single_turn_tail" /\ pc' = "summary_result"

\* this step ends single_turn_chat
SingleTurnChatEnds ==
    /\ pc \in {"generate", "save_facts", "return", "finally"}
    /\ pc' = "idle"

-----------------------------------------------------------------------------
(* Properties *)

\* C1: for every topic, once closed_at is set it never changes again (so it
\* goes from null to a value at most once and is never reset), and from then
\* on the topic's message list is never changed; name, summary and the
\* embedding may still be written.
C1_ClosedTopicFrozen ==
    [][\A id \in TopicIds :
          objs[id].closed_at # NoTime =>
              /\ objs'[id].closed_at = objs[id].closed_at
              /\ lists'[objs'[id].messages] = lists[objs[id].messages]]_vars

\* C1 witness: a topic was closed and summarized, and a later call recorded a
\* turn in a newer open topic.
C1_Witness ==
    \E id \in ClosedTopicIds :
        /\ objs[id].closed_at # NoTime
        /\ objs[id].name = "L"
        /\ short_term.curr_open_topic # NoTopic
        /\ Len(Messages(short_term.curr_open_topic)) >= 2
        /\ objs[short_term.curr_open_topic].created_at > objs[id].closed_at

C4_SwitchMovesThePair ==
    [][/\ (pc = "add_single_turn" /\ turn'.closing = "switch") =>
            /\ short_term.curr_open_topic # NoTopic
            /\ short_term'.topics = Append(short_term.topics, short_term.curr_open_topic)
            /\ objs'[short_term.curr_open_topic].closed_at # NoTime
            /\ lists'[objs'[short_term.curr_open_topic].messages]
                   = lists[objs[short_term.curr_open_topic].messages]
       /\ (AddSingleTurnCallReturns /\ turn'.closing = "switch") =>
            /\ short_term'.curr_open_topic # NoTopic
            /\ short_term'.curr_open_topic \notin ClosedTopicIds'
            /\ lists'[objs'[short_term'.curr_open_topic].messages]
                   = << Message("user", turn.user_message, now),
                        Message("assistant", turn.response, now) >>]_vars

\* C4 witness: a topic switch was declared and the call has returned.
C4_Witness ==
    /\ pc \in {"summary_result", "return"}
    /\ turn.closing = "switch"
    /\ Len(Messages(Last(short_term.topics))) >= 2

\* C5 as stated: after any add_single_turn call returns, the open topic holds
\* no more than 25,000 characters, and a topic is closed for size only when
\* its total exceeds 25,000.
C5_OpenTopicWithinBudget ==
    [][AddSingleTurnCallReturns =>
          /\ OpenTopicChars' <= MAX_CONTEXT_CHARS
          /\ turn'.closing = "size" =>
                SumChars(lists'[objs'[Last(short_term'.topics)].messages]) > MAX_CONTEXT_CHARS]_vars

\* C6: in every reachable state no topic with zero messages is in the
\* short-term closed-topics list, in the short-term embedding table or in the
\* long-term corpus and its embedding table; a topic closed while empty has
\* only left the open-topic slot.
C6_NoEmptyTopicRecorded ==
    /\ \A id \in ClosedTopicIds : Messages(id) # <<>>
    /\ \A id \in DOMAIN short_term.topic_embeddings : Messages(id) # <<>>
    /\ \A i \in DOMAIN long_term.all_session_topics :
          lists[long_term.all_session_topics[i].messages] # <<>>
    /\ \A id \in DOMAIN long_term.all_topic_embeddings : Messages(id) # <<>>
    /\ \A id \in TopicIds :
          (objs[id].closed_at # NoTime /\ Messages(id) = <<>>) =>
              /\ short_term.curr_open_topic # id
              /\ objs[id].name = ""
              /\ objs[id].summary = NoneStr

\* C6 witness: end_session closed the empty topic that a size-based close had
\* opened.
C6_Witness ==
    /\ pc = "update_notepad"
    /\ short_term.curr_open_topic = NoTopic
    /\ \E id \in TopicIds :
          /\ objs[id].closed_at = now
          /\ Messages(id) = <<>>
          /\ short_term.topics # <<>>
          /\ objs[Last(short_term.topics)].closed_at < now

\* C7: when MemoryManager.add_single_turn has returned, the handle it returned
\* is non-null exactly when the turn closed a topic whose summary generation
\* was submitted to the executor, and then the manager has not persisted the
\* topic; when it returned None and the turn closed a topic, that topic is in
\* the Long-Term corpus.
C7_HandleIffAsynchronousClose ==
    LET closed_a_topic == Len(short_term.topics) > turn.topics_before
        submitted == /\ closed_a_topic
                     /\ turn.executor
                     /\ summary_task.topic = Last(short_term.topics)
                     /\ short_term.pending_summary_future = Last(short_term.topics)
    IN /\ pc = "summary_result" =>
            /\ turn.summary_future # NoTopic
            /\ submitted
            /\ turn.summary_future = Last(short_term.topics)
            /\ turn.summary_future \notin LongTermIds
       /\ pc \in {"save_facts", "return"} /\ turn.summary_future = NoTopic =>
            /\ ~submitted
            /\ closed_a_topic => Last(short_term.topics) \in LongTermIds

\* C7 witness: a turn without executor closed a topic synchronously and the
\* manager has returned None.
C7_Witness ==
    /\ pc = "return"
    /\ turn.summary_future = NoTopic
    /\ Len(short_term.topics) > turn.topics_before
    /\ Last(short_term.topics) \in LongTermIds

\* C8 as stated: every topic in the Long-Term corpus was added after its
\* summary generation completed: the name and the summary it was added with
\* are non-empty and its embedding is in the short-term table.
C8_PersistedAfterSummary ==
    \A i \in DOMAIN long_term.all_session_topics :
        LET t == long_term.all_session_topics[i]
        IN /\ ~Falsy(t.name)
           /\ ~Falsy(t.summary)
           /\ Has(short_term.topic_embeddings, t.id)

C10_ReplyDespiteFailedFacts ==
    [][(SingleTurnChatEnds /\ facts_future.state = "failed" /\ turn.response # NoneStr) =>
          /\ outcome'.status = "returned"
          /\ outcome'.value = turn.response]_vars

\* C11 as stated: whatever the generation call raises during update_notepad
\* (the update call or the compression call), update_notepad returns normally
\* and the notepad, in memory and on disk, keeps its previous content.
C11_UpdateNotepadNeverRaises ==
    [][pc = "update_notepad" =>
          /\ outcome'.status = "returned"
          /\ long_term'.notepad # long_term.notepad =>
                long_term'.notepad_file = long_term'.notepad]_vars

\* the {id, name, summary} entry of a closed topic of this session
SummaryEntry(id) == [id |-> id, name |-> objs[id].name, summary |-> objs[id].summary]

\* similarity of a closed topic of this session to a query
ShortTermSimilarity(query, id) ==
    cosine_similarity(get_embedding(query), short_term.topic_embeddings[id])

\* C13 as stated: whenever ShortTermMemory.get_context has returned,
\* closed_topics_summaries holds exactly one {id, name, summary} entry for
\* every topic of the closed-topics list, whether or not a topic is open.
C13_AllClosedTopicsSummarized ==
    pc = "generate" =>
        turn.context.short_term.closed_topics_summaries
            = [i \in DOMAIN short_term.topics |-> SummaryEntry(short_term.topics[i])]

\* C14: whenever ShortTermMemory.get_context has returned, recent_messages is
\* the complete message list of the open topic, in append order and the same
\* for every query, and the empty list when no topic is open.
C14_RecentMessagesAreTheOpenTopic ==
    pc = "generate" =>
        /\ turn.context.short_term.recent_messages
              = IF short_term.curr_open_topic = NoTopic THEN <<>>
                ELSE Messages(short_term.curr_open_topic)
        /\ \A query \in UserMessages :
              short_term_get_context(World, query).recent_messages
                 = turn.context.short_term.recent_messages

\* C14 witness: get_context has returned the four messages of two turns of
\* the open topic.
C14_Witness ==
    /\ pc = "generate"
    /\ Len(turn.context.short_term.recent_messages) = 4
    /\ turn.context.short_term.recent_messages[1].timestamp
          < turn.context.short_term.recent_messages[3].timestamp

\* C15 as stated: whenever ShortTermMemory.get_context has returned,
\* relevant_topics holds at most 2 closed topics of this session, each with
\* similarity to the query strictly above 0.75 and with its full message
\* list; and for a non-blank query every closed topic that has an embedding,
\* scores above 0.75 and ranks among the top 2 is included.
C15_RelevantClosedTopics ==
    pc = "generate" =>
        LET query == turn.user_message
            relevant == turn.context.short_term.relevant_topics
            returned == {relevant[i].id : i \in DOMAIN relevant}
            scored == {i \in DOMAIN short_term.topics :
                          /\ Has(short_term.topic_embeddings, short_term.topics[i])
                          /\ Greater(ShortTermSimilarity(query, short_term.topics[i]), 75)}
            ahead(i) == {j \in scored :
                            LET a == ShortTermSimilarity(query, short_term.topics[j])
                                b == ShortTermSimilarity(query, short_term.topics[i])
                            IN a > b \/ (a = b /\ j < i)}
        IN /\ Len(relevant) <= 2
           /\ \A i \in DOMAIN relevant :
                 /\ relevant[i].id \in ClosedTopicIds
                 /\ Greater(ShortTermSimilarity(query, relevant[i].id), 75)
                 /\ relevant[i].messages = Messages(relevant[i].id)
           /\ ~IsBlank(query) =>
                 \A i \in scored :
                     Cardinality(ahead(i)) < 2 => short_term.topics[i] \in returned

\* similarity of a topic of the Long-Term corpus to a query
LongTermSimilarity(query, id) ==
    cosine_similarity(get_embedding(query), long_term.all_topic_embeddings[id])

\* C12 as stated: the topics find_relevant_topics returned are in descending
\* order of similarity to the query, each scores strictly above
\* min_threshold, and there are at most max_k of them.
C12_SortedAboveThresholdAtMostK ==
    outcome.op = "find_relevant_topics" =>
        LET returned == outcome.value
            similarity(i) == ShortTermSimilarity(turn.call.query, returned[i].id)
        IN /\ Len(returned) <= turn.call.k
           /\ \A i \in DOMAIN returned : Greater(similarity(i), turn.call.min_threshold)
           /\ \A i, j \in DOMAIN returned : i < j => similarity(i) >= similarity(j)

\* C16: the topics LongTermMemory.get_context(query, k) returned all score
\* strictly above 0.5 against the query (none is returned when every stored
\* topic scores 0.5 or less) and there are at most k of them, 3 when the
\* manager makes the call.
C16_LongTermAboveHalfAtMostK ==
    LET relevant ==
            CASE outcome.op = "LongTermMemory.get_context" -> outcome.value.relevant_topics
              [] outcome.op = "MemoryManager.get_context" ->
                     outcome.value.long_term.relevant_topics
              [] OTHER -> <<>>
    IN outcome.op \in {"LongTermMemory.get_context", "MemoryManager.get_context"} =>
          /\ Len(relevant) <= turn.call.k
          /\ outcome.op = "MemoryManager.get_context" => Len(relevant) <= 3
          /\ \A i \in DOMAIN relevant :
                /\ Has(long_term.all_topic_embeddings, relevant[i].id)
                /\ LongTermSimilarity(turn.call.query, relevant[i].id) # NaN
                /\ LongTermSimilarity(turn.call.query, relevant[i].id) > 50

\* C16 witness: LongTermMemory.get_context returned k topics while more than
\* k stored topics score above 0.5 and another scores exactly 0.5.
C16_Witness ==
    /\ outcome.op = "LongTermMemory.get_context"
    /\ turn.call.k >= 1
    /\ Len(outcome.value.relevant_topics) = turn.call.k
    /\ Cardinality({id \in DOMAIN long_term.all_topic_embeddings :
                       Greater(LongTermSimilarity(turn.call.query, id), 50)}) > turn.call.k
    /\ \E id \in DOMAIN long_term.all_topic_embeddings :
          LongTermSimilarity(turn.call.query, id) = 50

LastNonBlank(incoming, field) ==
    LET given == {i \in DOMAIN incoming :
                     incoming[i].field = field /\ Strip(incoming[i].value) # ""}
    IN IF given = {} THEN 0 ELSE CHOOSE i \in given : \A j \in given : j <= i

\* the entry a save at time t writes for a fact
Written(fact, t) ==
    [value |-> Strip(fact.value),
     importance |-> IF fact.importance < 1 THEN 1
                    ELSE IF fact.importance > 10 THEN 10 ELSE fact.importance,
     updated_at |-> t]

\* C17 as stated: after a save_facts call the entry of a field is the one
\* written by the most recent save that gave the field a non-blank value
\* (stripped value, importance within 1..10, updated_at of that save), and a
\* field the save gave no value or only a blank one has its entry unchanged.
C17_LastNonBlankSaveWins ==
    outcome.op = "save_facts" =>
        /\ long_term.facts_file = long_term.facts
        /\ \A field \in Fields :
              LET i == LastNonBlank(turn.facts, field)
              IN IF i # 0
                 THEN /\ Has(long_term.facts, field)
                      /\ long_term.facts[field] = Written(turn.facts[i], now)
                 ELSE /\ Has(long_term.facts, field) = Has(turn.facts_before, field)
                      /\ Has(long_term.facts, field) =>
                            long_term.facts[field] = turn.facts_before[field]

\* C17 amended: ... and a field the save gave no value or only a blank one
\* has its entry either unchanged or removed by the pruning that ends the
\* save; no entry appears for it.
C17_LastNonBlankSaveWinsOrPruned ==
    outcome.op = "save_facts" =>
        /\ long_term.facts_file = long_term.facts
        /\ \A field \in Fields :
              LET i == LastNonBlank(turn.facts, field)
              IN IF i # 0
                 THEN /\ Has(long_term.facts, field)
                      /\ long_term.facts[field] = Written(turn.facts[i], now)
                 ELSE Has(long_term.facts, field) =>
                         /\ Has(turn.facts_before, field)
                         /\ long_term.facts[field] = turn.facts_before[field]

\* C17 witness: the second save overwrote the entry the first save wrote for
\* a field, and was given only a blank value for the other field, whose
\* stored entry is still there.
C17_Witness ==
    /\ outcome.op = "save_facts"
    /\ message_count = 2
    /\ \E field, other \in Fields :
          /\ field # other
          /\ LastNonBlank(turn.facts, field) # 0
          /\ Has(turn.facts_before, field)
          /\ turn.facts_before[field].updated_at = now - 1
          /\ turn.facts_before[field].importance # long_term.facts[field].importance
          /\ long_term.facts[field].updated_at = now
          /\ \E i \in DOMAIN turn.facts :
                turn.facts[i].field = other /\ Strip(turn.facts[i].value) = ""
          /\ Has(long_term.facts, other)
          /\ long_term.facts[other].value = "Bob"

\* C18: the pruning of a save removes a fact if and only if its importance is
\* below 7 and its updated_at parses to a time more than 365 days before now;
\* so a fact of importance 7 or more, a fact updated within 365 days (the
\* ones this save wrote among them), and a fact with a missing or unparseable
\* timestamp survive.
C18_PruneOnlyStaleUnimportant ==
    (outcome.op = "save_facts" /\ turn.facts # <<>>) =>
        \A field \in DOMAIN turn.facts_before :
            LET data == turn.facts_before[field]
                stale == /\ data.updated_at \notin {NoTime, BadTime}
                         /\ data.updated_at < now - MaxAgeSeconds
            IN ~Has(long_term.facts, field)
                  <=> /\ LastNonBlank(turn.facts, field) = 0
                      /\ data.importance < 7
                      /\ stale

\* C18 witness: one save removed a stale fact of importance 6 and kept
\* another fact of importance 6 whose timestamp does not parse.
C18_Witness ==
    /\ outcome.op = "save_facts"
    /\ turn.facts # <<>>
    /\ \E field, other \in Fields :
          /\ Has(turn.facts_before, field)
          /\ ~Has(long_term.facts, field)
          /\ Has(long_term.facts, other)
          /\ long_term.facts[other].importance = 6
          /\ long_term.facts[other].updated_at = BadTime


\* the (id, name, summary) of every topic of a corpus, in order
Labels(topics) ==
    [i \in DOMAIN topics |->
        [id |-> topics[i].id, name |-> topics[i].name, summary |-> topics[i].summary]]

\* C20: at every moment, whatever saves came before, a fresh LongTermMemory
\* loaded from the files holds the same topic ids, names and summaries, in the
\* same order, and the same id -> embedding table, as the saving instance
\* holds in memory.
C20_LoadGivesTheSavedCorpus ==
    LET loaded == load(World).lt
    IN /\ Labels(loaded.all_session_topics) = Labels(long_term.all_session_topics)
       /\ loaded.all_topic_embeddings = long_term.all_topic_embeddings

\* C20 witness: two saves have happened, one topic each; the files hold both
\* topics, each with its embedding stored as a list, and the two embeddings
\* differ.
C20_Witness ==
    /\ Len(long_term.all_session_topics) = 2
    /\ Len(long_term.all_session_topics_file) = 2
    /\ \A i \in 1..2 :
          /\ Has(long_term.all_session_topics_embeddings_file,
                 long_term.all_session_topics[i].id)
          /\ long_term.all_session_topics_embeddings_file[
                 long_term.all_session_topics[i].id].type = "list"
    /\ long_term.all_topic_embeddings[long_term.all_session_topics[1].id]
          # long_term.all_topic_embeddings[long_term.all_session_topics[2].id]


\* the pair add_single_turn records for the running turn
TurnPair ==
    << Message("user", turn.user_message, now),
       Message("assistant", turn.response, now) >>

\* C21: when add_single_turn is called while no topic is open and the pair
\* does not exceed the size budget, the call opens a new topic and returns
\* with that topic open and holding exactly the user message then the
\* assistant reply; whatever the similarity and the classifier would answer,
\* no topic is closed, no summary is submitted and nothing is persisted.
C21_FirstTurnOpensTopic ==
    [][(/\ pc = "add_single_turn"
        /\ short_term.curr_open_topic = NoTopic
        /\ SumChars(TurnPair) <= MAX_CONTEXT_CHARS) =>
          /\ pc' \in {"save_facts", "return"}
          /\ turn'.closing = "none"
          /\ short_term'.curr_open_topic = Len(objs) + 1
          /\ objs'[short_term'.curr_open_topic].closed_at = NoTime
          /\ lists'[objs'[short_term'.curr_open_topic].messages] = TurnPair
          /\ short_term'.topics = short_term.topics
          /\ short_term'.topic_embeddings = short_term.topic_embeddings
          /\ summary_task' = summary_task
          /\ long_term' = long_term]_vars

\* C21 witness: add_single_turn has returned from a call that found no open
\* topic, after an earlier end_session had closed the topic of the session;
\* the topic created by this call is open with two messages.
C21_Witness ==
    /\ pc \in {"save_facts", "return"}
    /\ turn.closing = "none"
    /\ short_term.topics # <<>>
    /\ short_term.curr_open_topic # NoTopic
    /\ objs[short_term.curr_open_topic].created_at = now
    /\ Len(Messages(short_term.curr_open_topic)) = 2


\* no task of the executor is queued or running
NoTaskRunning == FactsDone /\ SummaryDone

\* C22: on every step that ends single_turn_chat, by return or by exception,
\* and whenever no call is running, every task submitted to the turn's
\* executor has finished; a worker step is only taken while the turn that
\* submitted the task is running (the topic a summary task works on was
\* closed by the running call).
C22_PoolJoinedOnEveryExit ==
    [][/\ SingleTurnChatEnds => NoTaskRunning
       /\ pc = "idle" => NoTaskRunning
       /\ facts_future.state = "running" /\ facts_future' # facts_future =>
              pc # "idle" /\ turn.executor
       /\ ~SummaryDone /\ summary_task' # summary_task =>
              /\ pc # "idle"
              /\ turn.executor
              /\ objs[summary_task.topic].closed_at = now]_vars

\* C22 witness: generate() has raised while the fact extraction was still
\* running; the exception is held in the finally clause and the extraction
\* has finished since.
C22_Witness ==
    /\ pc = "finally"
    /\ turn.exception = "generate"
    /\ facts_future.state = "done"
    /\ facts_future.result # <<>>


\* the reply parses and validates against the class of the running call
Validates(reply) == Attempt(turn.output_class, reply).ok

\* C23: generate_with_retry calls the model at most max_retries times; when
\* it returns, the value is the validated content of the last reply and
\* every earlier reply had failed, and no call is made afterwards; when it
\* raises, max_retries calls were made and all failed (ValueError when the
\* last failure was a parse or validation error); and every call of
\* generate_with_retry ends.
C23_BoundedRetry ==
    /\ [](/\ Len(turn.replies) <= max_retries
          /\ outcome.status = "returned" =>
                /\ turn.replies # <<>>
                /\ Validates(Last(turn.replies))
                /\ outcome.value = Attempt(turn.output_class, Last(turn.replies)).value
                /\ \A i \in 1..(Len(turn.replies) - 1) : ~Validates(turn.replies[i])
          /\ outcome.status = "raised" =>
                /\ Len(turn.replies) = max_retries
                /\ \A i \in DOMAIN turn.replies : ~Validates(turn.replies[i])
                /\ outcome.error = "ValueError"
                      <=> IsParseError(Attempt(turn.output_class,
                                               Last(turn.replies)).error)
          /\ outcome.status = "running" <=> pc # "idle")
    /\ [][outcome.status # "running" => turn' = turn]_vars
    /\ <>(pc = "idle")

\* C23 witness: the call has returned the content of a fenced reply that
\* came third, after a reply that was not JSON and a call that raised.
C23_Witness ==
    /\ outcome.op = "generate_with_retry"
    /\ outcome.status = "returned"
    /\ Len(turn.replies) = max_retries
    /\ turn.replies[1].text.json.kind = "none"
    /\ turn.replies[2].raises
    /\ turn.replies[3].text.fenced
    /\ now = 3


\* C24: while MemoryManager.get_context runs, whichever of its two builds
\* runs first, no memory state changes (open-topic slot, closed-topics list,
\* topics and their threads, both embedding tables, corpus, facts, notepad
\* and the files); each build reads only its own memory, so its result is
\* the same when the other memory is replaced by an empty one; and the pair
\* get_context returns is the one a sequential build computes from the state
\* the call started in.
C24_GetContextReadOnlyAnyOrder ==
    [][pc = "get_context" =>
          /\ UNCHANGED <<objs, lists, short_term, long_term>>
          /\ turn'.lt_future # turn.lt_future /\ turn'.lt_future # <<>> =>
                turn'.lt_future[1] =
                    long_term_get_context(
                        [World EXCEPT !.st = NewShortTermMemory, !.objs = <<>>],
                        turn.user_message, 3)
          /\ turn'.st_future # turn.st_future /\ turn'.st_future # <<>> =>
                turn'.st_future[1] =
                    short_term_get_context([World EXCEPT !.lt = NewLongTermMemory],
                                           turn.user_message)
          /\ pc' = "generate" =>
                turn'.context = get_context(World, turn.user_message).context]_vars

\* C24 witness: the short-term build has finished before the long-term build
\* has started, in a session whose closed topic is also in the Long-Term
\* corpus; the short-term result holds the open topic's two messages.
C24_Witness ==
    /\ pc = "get_context"
    /\ turn.lt_future = <<>>
    /\ turn.st_future # <<>>
    /\ Len(turn.st_future[1].recent_messages) = 2
    /\ turn.st_future[1].closed_topics_summaries # <<>>
    /\ long_term.all_session_topics # <<>>
    /\ ~IsBlank(turn.user_message)


\* C25: when add_single_turn closes the open topic for size, without a topic
\* switch, the closed topic holds the messages it held before the call
\* followed by this turn's pair and keeps them until the call returns; when
\* the call returns, the open topic is a new topic with an empty message list
\* of its own.
C25_SizeCloseKeepsThePair ==
    [][/\ (pc = "add_single_turn" /\ turn'.closing = "size") =>
            LET opened == short_term.curr_open_topic = NoTopic
                id == IF opened THEN Len(objs) + 1 ELSE short_term.curr_open_topic
                before == IF opened THEN <<>> ELSE Messages(short_term.curr_open_topic)
            IN /\ short_term'.topics = Append(short_term.topics, id)
               /\ objs'[id].closed_at = now
               /\ lists'[objs'[id].messages] = before \o TurnPair
       /\ (AddSingleTurnCallReturns /\ turn'.closing = "size") =>
            /\ short_term'.curr_open_topic = Len(objs')
            /\ short_term'.curr_open_topic \notin ClosedTopicIds'
            /\ objs'[short_term'.curr_open_topic].closed_at = NoTime
            /\ lists'[objs'[short_term'.curr_open_topic].messages] = <<>>
            /\ objs'[short_term'.curr_open_topic].messages
                  # objs'[Last(short_term'.topics)].messages
            /\ LastK(lists'[objs'[Last(short_term'.topics)].messages], 2) = TurnPair
            /\ pc = "add_single_turn_tail" =>
                  lists'[objs'[Last(short_term'.topics)].messages]
                      = lists[objs[Last(short_term.topics)].messages]]_vars

\* C25 witness: add_single_turn has returned from a size-based close of a
\* topic that held an earlier turn; the closed topic holds four messages and
\* the open topic none.
C25_Witness ==
    /\ pc \in {"summary_result", "save_facts", "return"}
    /\ turn.closing = "size"
    /\ Len(Messages(Last(short_term.topics))) = 4
    /\ Messages(short_term.curr_open_topic) = <<>>


\* C26: when the classifier call of _detect_topic_shift raises, add_single_turn
\* declares no switch: the pair is appended to the topic that was open and
\* stays there, and that topic remains the open topic unless the size check
\* of the same call closes it.
C26_FailedClassifierMeansNoSwitch ==
    [][(pc = "add_single_turn" /\ turn'.decision = "raise") =>
          /\ turn'.closing \in {"none", "size"}
          /\ short_term.curr_open_topic # NoTopic
          /\ lists'[objs'[short_term.curr_open_topic].messages]
                = Messages(short_term.curr_open_topic) \o TurnPair
          /\ turn'.closing = "none" =>
                /\ short_term'.curr_open_topic = short_term.curr_open_topic
                /\ short_term'.topics = short_term.topics
                /\ objs'[short_term.curr_open_topic].closed_at = NoTime
          /\ turn'.closing = "size" =>
                SumChars(Messages(short_term.curr_open_topic) \o TurnPair)
                    > MAX_CONTEXT_CHARS]_vars

\* C26 witness: the classifier call raised in the second turn of a topic and
\* add_single_turn has returned with that topic open and holding both turns.
C26_Witness ==
    /\ pc \in {"save_facts", "return"}
    /\ turn.decision = "raise"
    /\ turn.closing = "none"
    /\ short_term.curr_open_topic # NoTopic
    /\ Len(Messages(short_term.curr_open_topic)) = 4
    /\ objs[short_term.curr_open_topic].created_at < now


C28_ParseFailureKeepsNotepad ==
    [][(pc = "update_notepad" /\ outcome'.error \in {"ValueError", "TypeError"}) =>
          /\ outcome'.status = "returned"
          /\ long_term'.notepad = long_term.notepad
          /\ long_term'.notepad_file = long_term.notepad_file]_vars


\* a topic among the last 10 of the corpus has at least 2 messages
RecentTopicWithMessages ==
    \E i \in DOMAIN long_term.all_session_topics :
        /\ i > Len(long_term.all_session_topics) - 10
        /\ Len(lists[long_term.all_session_topics[i].messages]) >= 2

\* C29: when no topic among the last 10 of the corpus has at least 2
\* messages, update_notepad returns without having made a generation call
\* and the notepad is unchanged, in memory and in the file.
C29_NoQualifyingTopicNoCall ==
    [][(outcome'.op = "update_notepad" /\ outcome.op = "none"
            /\ ~RecentTopicWithMessages) =>
          /\ turn'.calls = 0
          /\ outcome'.status = "returned"
          /\ outcome'.error = "none"
          /\ long_term'.notepad = long_term.notepad
          /\ long_term'.notepad_file = long_term.notepad_file]_vars

\* C29 witness: update_notepad has returned without a generation call on a
\* corpus of 11 topics whose oldest topic has 2 messages and whose last 10
\* topics have one message each; the notepad file is as it was.
C29_Witness ==
    /\ outcome.op = "update_notepad"
    /\ turn.calls = 0
    /\ Len(long_term.all_session_topics) = 11
    /\ Len(lists[long_term.all_session_topics[1].messages]) = 2
    /\ ~RecentTopicWithMessages
    /\ long_term.notepad_file = "old"


\* the place of a returned topic in the closed-topics list, the topics
\* argument of the call
InputPlace(topic) ==
    CHOOSE i \in DOMAIN short_term.topics : short_term.topics[i] = topic.id

\* C30 as stated: topics that score the same against the query are returned
\* by find_relevant_topics in the order of the topics argument, and when
\* max_k cuts one of them off it is a later one of the argument.
C30_EqualScoresKeepInputOrder ==
    outcome.op = "find_relevant_topics" =>
        LET returned == outcome.value
            similarity(id) == ShortTermSimilarity(turn.call.query, id)
        IN /\ \A i, j \in DOMAIN returned :
                 (i < j /\ similarity(returned[i].id) = similarity(returned[j].id))
                     => InputPlace(returned[i]) < InputPlace(returned[j])
           /\ \A j \in DOMAIN returned : \A p \in DOMAIN short_term.topics :
                 (/\ p < InputPlace(returned[j])
                  /\ Has(short_term.topic_embeddings, short_term.topics[p])
                  /\ similarity(short_term.topics[p]) = similarity(returned[j].id))
                     => \E i \in DOMAIN returned : returned[i].id = short_term.topics[p]


\* C31: in every add_single_turn call, a similarity is computed exactly when
\* the open topic holds at least 3 messages once the pair is appended; the
\* classifier is asked exactly when a similarity was computed and it is not
\* greater than 0.45; the call switches topics exactly when the classifier
\* was asked and answered "switch".  With a similarity above 0.45, or fewer
\* than 3 messages, the classifier is not asked and there is no switch.
C31_TwoStageDetection ==
    [][pc = "add_single_turn" =>
          LET held == IF short_term.curr_open_topic = NoTopic THEN 0
                      ELSE Len(Messages(short_term.curr_open_topic))
              attempted == turn'.similarity # <<>>
              asked == turn'.decision # "not_called"
          IN /\ attempted <=> held + 2 >= 3
             /\ asked <=> (attempted /\ ~Greater(turn'.similarity[1], 45))
             /\ (turn'.closing = "switch") <=> (turn'.decision = "switch")
             /\ (attempted /\ Greater(turn'.similarity[1], 45)) =>
                    (~asked /\ turn'.closing # "switch")]_vars

\* C31 witness: in the second turn of a topic the similarity was exactly
\* 0.45, the classifier answered "switch" and the call switched topics.
C31_Witness ==
    /\ pc \in {"add_single_turn_tail", "save_facts", "return"}
    /\ turn.similarity = <<45>>
    /\ turn.decision = "switch"
    /\ turn.closing = "switch"


\* C32 as stated: when _close_current_topic is called on an open topic that
\* holds exactly one message, it returns no future, the topic is in the
\* closed-topics list with the summary 'Brief exchange with minimal
\* content.' and the name 'Empty Topic' (it was unnamed), and its embedding,
\* computed from the name, is in the table when the call returns.
C32_OneMessageCloseSkipsSummary ==
    [][(/\ outcome'.op = "_close_current_topic"
        /\ outcome.op = "none"
        /\ Len(Messages(short_term.curr_open_topic)) = 1) =>
          LET id == short_term.curr_open_topic
          IN /\ turn'.summary_future = NoTopic
             /\ summary_task' = NoTask
             /\ short_term'.topics = Append(short_term.topics, id)
             /\ objs'[id].summary = "Brief exchange with minimal content."
             /\ objs'[id].name = "Empty Topic"
             /\ Has(short_term'.topic_embeddings, id)
             /\ short_term'.topic_embeddings[id] = get_embedding("Empty Topic")]_vars


\* what a copy of a topic shows: its messages, name and summary
ShortTermCopy(w, id) ==
    [messages |-> w.lists[w.objs[id].messages], name |-> w.objs[id].name,
     summary |-> w.objs[id].summary]

LongTermCopies(w, id) ==
    { [messages |-> w.lists[w.lt.all_session_topics[j].messages],
       name |-> w.lt.all_session_topics[j].name,
       summary |-> w.lt.all_session_topics[j].summary] :
          j \in { k \in DOMAIN w.lt.all_session_topics :
                      w.lt.all_session_topics[k].id = id } }

\* C33 as stated: a change made through the short-term copy of a handed-off
\* topic leaves what the long-term copy shows (messages, name, summary) as
\* it was, and a change made through the long-term copy leaves what the
\* short-term copy shows as it was.
C33_CopiesShareNoState ==
    [][/\ turn'.copy = "short_term" =>
             LongTermCopies(World', turn'.topic) = LongTermCopies(World, turn'.topic)
       /\ turn'.copy = "long_term" =>
             ShortTermCopy(World', turn'.topic) = ShortTermCopy(World, turn'.topic)]_vars


\* the ids of the Long-Term corpus whose topic has a summary
LongTermSummarized ==
    { long_term.all_session_topics[j].id : j \in
        { k \in DOMAIN long_term.all_session_topics :
             long_term.all_session_topics[k].summary # NoneStr } }

\* C34: in every step, an entry of the short-term or of the long-term
\* embedding table stays in its table with the same value; an entry that
\* appears belongs to a topic whose summary has been assigned; and every
\* step that stores an embedding (the end of a summary generation, a
\* synchronous close, a persist) stores it for an id the table did not hold.
C34_EmbeddingsWrittenOnce ==
    [][/\ \A id \in DOMAIN short_term.topic_embeddings :
             /\ Has(short_term'.topic_embeddings, id)
             /\ short_term'.topic_embeddings[id] = short_term.topic_embeddings[id]
       /\ \A id \in DOMAIN long_term.all_topic_embeddings :
             /\ Has(long_term'.all_topic_embeddings, id)
             /\ long_term'.all_topic_embeddings[id] = long_term.all_topic_embeddings[id]
       /\ \A id \in DOMAIN short_term'.topic_embeddings :
             objs'[id].summary # NoneStr
       /\ \A id \in DOMAIN long_term'.all_topic_embeddings :
             id \in LongTermSummarized'
       /\ (summary_task.state = "assigned" /\ summary_task'.state = "done") =>
             ~Has(short_term.topic_embeddings, summary_task.topic)
       /\ (Len(short_term'.topics) > Len(short_term.topics)
               /\ summary_task' = summary_task) =>
             ~Has(short_term.topic_embeddings, Last(short_term'.topics))
       /\ Len(long_term'.all_session_topics) > Len(long_term.all_session_topics) =>
             ~Has(long_term.all_topic_embeddings,
                  Last(long_term'.all_session_topics).id)]_vars

\* C34 witness: two topics of the session have been summarized and persisted,
\* the first by the worker pool; both tables hold an entry for each.
C34_Witness ==
    /\ pc = "idle"
    /\ Len(short_term.topics) = 2
    /\ short_term.pending_summary_future = short_term.topics[1]
    /\ DOMAIN short_term.topic_embeddings = {short_term.topics[1], short_term.topics[2]}
    /\ DOMAIN long_term.all_topic_embeddings = DOMAIN short_term.topic_embeddings


\* C35: a summary generation is submitted only when no earlier one is
\* unfinished; no generation is unfinished between two calls; and from
\* add_single_turn to the end of the turn the closed-topics list has grown
\* by at most one topic.
C35_OneClosureInFlight ==
    [][/\ (summary_task' # summary_task /\ summary_task'.state = "pending") =>
             summary_task.state \notin {"pending", "assigned"}
       /\ pc' = "idle" => summary_task'.state \notin {"pending", "assigned"}
       /\ Len(short_term'.topics) <= Len(short_term.topics) + 1
       /\ pc' \in {"add_single_turn_tail", "summary_result", "save_facts", "return"} =>
             Len(short_term'.topics) <= turn'.topics_before + 1]_vars

\* C35 witness: a turn has submitted the summary generation of the second
\* topic it closes in this session; the generation of the first, submitted by
\* an earlier turn, has finished.
C35_Witness ==
    /\ pc = "add_single_turn_tail"
    /\ summary_task.state = "pending"
    /\ Len(short_term.topics) = 2
    /\ summary_task.topic = short_term.topics[2]
    /\ short_term.pending_summary_future = short_term.topics[2]
    /\ Has(short_term.topic_embeddings, short_term.topics[1])
    /\ objs[short_term.topics[1]].created_at < objs[short_term.topics[2]].created_at


RECURSIVE ThreadsFrom(_, _)
\* the messages of the topics from the i-th closed topic on, in closure order
ThreadsFrom(topics, i) ==
    IF i > Len(topics) THEN <<>>
    ELSE Messages(topics[i]) \o ThreadsFrom(topics, i + 1)

\* the messages of the closed topics in closure order, then those of the
\* open topic
Conversation ==
    ThreadsFrom(short_term.topics, 1)
        \o (IF short_term.curr_open_topic = NoTopic THEN <<>>
            ELSE Messages(short_term.curr_open_topic))

\* C36: every add_single_turn call extends the conversation (the messages
\* of the closed topics in closure order, then those of the open topic) by
\* the user message followed by the reply, once it has run to its end, and
\* no other step changes the conversation: not a worker of the pool, not a
\* persist, not end_session.  (While a switch waits for its executor
\* submission to return, the pair is in neither topic.)
C36_MessageConservation ==
    [][/\ (pc' = pc \/ pc \notin {"add_single_turn", "add_single_turn_tail"}) =>
             Conversation' = Conversation
       /\ (pc = "add_single_turn" /\ pc' # pc) =>
             Conversation' =
                 IF pc' = "add_single_turn_tail" /\ turn'.closing = "switch"
                 THEN Conversation
                 ELSE Conversation \o TurnPair
       /\ (pc = "add_single_turn_tail" /\ pc' # pc) =>
             Conversation' =
                 IF turn.closing = "switch" THEN Conversation \o TurnPair
                 ELSE Conversation]_vars

\* C36 witness: a session of two turns, the second of which switched topics,
\* ended by end_session: two closed topics of one turn each, no open topic,
\* the four messages in arrival order.
C36_Witness ==
    /\ pc = "idle"
    /\ outcome.op = "end_session"
    /\ short_term.curr_open_topic = NoTopic
    /\ Len(short_term.topics) = 2
    /\ objs[short_term.topics[1]].closed_at = objs[short_term.topics[2]].created_at
    /\ Len(Conversation) = 4
    /\ [i \in 1..4 |-> Conversation[i].role] = <<"user", "assistant", "user", "assistant">>
    /\ Conversation[2].timestamp < Conversation[3].timestamp


\* C37: every topic of the closed-topics list holds an even number of
\* messages, at least 2; the open topic holds an even number of messages
\* (so a close never finds exactly one); and no closed topic has the summary
\* of the single-message branch.
C37_ClosedTopicsHoldWholePairs ==
    /\ \A i \in DOMAIN short_term.topics :
          /\ Len(Messages(short_term.topics[i])) >= 2
          /\ Len(Messages(short_term.topics[i])) % 2 = 0
          /\ objs[short_term.topics[i]].summary # "Brief exchange with minimal content."
    /\ short_term.curr_open_topic # NoTopic =>
          Len(Messages(short_term.curr_open_topic)) % 2 = 0

\* C37 witness: a switch in the second turn of a topic has closed it; the
\* closed topic holds the first turn's two messages, the new open topic the
\* second turn's.
C37_Witness ==
    /\ pc \in {"save_facts", "return"}
    /\ turn.closing = "switch"
    /\ Len(short_term.topics) = 1
    /\ Len(Messages(short_term.topics[1])) = 2
    /\ Messages(short_term.topics[1])[2].timestamp < now
    /\ short_term.curr_open_topic # NoTopic
    /\ Messages(short_term.curr_open_topic) = TurnPair


\* C38: a Topic of the session has a null closed_at exactly when it is the
\* open topic (so at most one topic is open); current_topic_id is the open
\* topic's id, null when none is open; every topic of the closed-topics list
\* has a closed_at; and once add_single_turn has returned a topic is open.
C38_OpenSlotConsistency ==
    /\ \A id \in DOMAIN objs :
          (objs[id].closed_at = NoTime) <=> (id = short_term.curr_open_topic)
    /\ IF short_term.curr_open_topic = NoTopic
       THEN short_term.current_topic_id = NoTopic
       ELSE short_term.current_topic_id = objs[short_term.curr_open_topic].id
    /\ \A i \in DOMAIN short_term.topics :
          objs[short_term.topics[i]].closed_at # NoTime
    /\ pc \in {"summary_result", "save_facts", "return"} =>
          short_term.curr_open_topic # NoTopic
    /\ (pc = "idle" /\ outcome.op = "single_turn_chat" /\ outcome.status = "returned") =>
          short_term.curr_open_topic # NoTopic

\* C38 witness: add_single_turn has returned after a size close of the
\* second topic of the session: two closed topics with a closed_at, and a
\* new, empty open topic whose id is current_topic_id.
C38_Witness ==
    /\ pc \in {"summary_result", "save_facts", "return"}
    /\ turn.closing = "size"
    /\ Len(short_term.topics) = 2
    /\ short_term.curr_open_topic = Len(objs)
    /\ short_term.current_topic_id = short_term.curr_open_topic
    /\ Messages(short_term.curr_open_topic) = <<>>
    /\ objs[short_term.topics[2]].closed_at = now


\* the places of the Long-Term corpus that hold a topic with this id
LongTermPlaces(id) ==
    { j \in DOMAIN long_term.all_session_topics :
         long_term.all_session_topics[j].id = id }

\* C39 as stated: no id occurs twice in the Long-Term corpus, in any state;
\* and after a single_turn_chat that returned and after the close-and-persist
\* of end_session, every topic of the closed-topics list occurs in the
\* corpus exactly once.
C39_ExactlyOnceHandOff ==
    /\ \A j, k \in DOMAIN long_term.all_session_topics :
          j # k => long_term.all_session_topics[j].id # long_term.all_session_topics[k].id
    /\ (\/ pc = "update_notepad"
        \/ pc = "idle" /\ outcome.op = "end_session"
        \/ pc = "idle" /\ outcome.op = "single_turn_chat" /\ outcome.status = "returned") =>
          \A i \in DOMAIN short_term.topics :
              Cardinality(LongTermPlaces(short_term.topics[i])) = 1


\* world w without the state an in-flight summary of topic id owns: the
\* topic's name and summary and the Short-Term embedding table
WithoutSummaryState(w, id) ==
    [w EXCEPT !.objs[id].name = "", !.objs[id].summary = NoneStr,
              !.st.topic_embeddings = EmptyDict]

\* a summary generation was submitted and its future has not completed
SummaryInFlight == summary_task.state \in {"pending", "assigned"}

\* C40: while a topic's summary generation is in flight, a step of the
\* turn-handling thread writes neither the topic's name or summary nor the
\* Short-Term embedding table and reads none of them (run on a world in which
\* they are blanked it produces the same world, those values aside); a step
\* of the worker changes nothing but those three.
C40_NoRaceOnInFlightSummary ==
    [][SummaryInFlight =>
         LET id == summary_task.topic
         IN IF summary_task' = summary_task
            THEN /\ objs'[id].name = objs[id].name
                 /\ objs'[id].summary = objs[id].summary
                 /\ short_term'.topic_embeddings = short_term.topic_embeddings
                 /\ pc = "add_single_turn_tail"
                 /\ WithoutSummaryState(World', id) =
                        WithoutSummaryState(
                            AddSingleTurnTail(WithoutSummaryState(World, id), turn.closing,
                                              turn.user_message, turn.response, now), id)
            ELSE /\ WithoutSummaryState(World', id) = WithoutSummaryState(World, id)
                 /\ UNCHANGED <<message_count, now, pc, facts_future, outcome>>
                 /\ [turn' EXCEPT !.close_topic = "x"] = [turn EXCEPT !.close_topic = "x"]]_vars

\* the turn-handling thread has started the next topic and recorded the pair
\* in it while the worker has written the closed topic's name and summary and
\* has not yet stored its embedding
C40_Witness ==
    /\ pc = "summary_result"
    /\ summary_task.state = "assigned"
    /\ turn.closing = "switch"
    /\ objs[summary_task.topic].name # ""
    /\ ~Has(short_term.topic_embeddings, summary_task.topic)
    /\ short_term.curr_open_topic # NoTopic
    /\ Len(Messages(short_term.curr_open_topic)) = 2

====
